---------------------------- MODULE Spec2Model ----------------------------
(***************************************************************************)
(* NAS path tracker of archive-analyzer (archive_analyzer/path_tracker.py, *)
(* archive_analyzer/utils/path.py).                                        *)
(*                                                                         *)
(* Two specifications live in this module.                                 *)
(*   SpecQueue  EventQueue with its lock, its threading.Timer objects and  *)
(*              the thread that calls flush_now, step by step.             *)
(*   Spec       the pipeline observer -> EventQueue -> process_events ->   *)
(*              catalog (files, file_history), one handler per step.       *)
(***************************************************************************)
EXTENDS Integers, Sequences, FiniteSets, TLC

VARIABLES
    \* ---- EventQueue (path_tracker.py:246-251)
    pending,        \* self._pending: dict in insertion order, as a sequence of events
    outq,           \* self._queue: FIFO of flushed events
    lock,           \* self._lock: "free", or the thread inside _flush: "timer" / "flush_now"
    flushPos,       \* number of pending entries the running _flush has put on outq
    timerArmed,     \* self._flush_timer is a started Timer, neither fired nor cancelled
    timerDeadline,  \* the time that Timer was started at plus debounce_seconds
    timersWaiting,  \* Timer threads that passed their cancel check and are to run _flush
    fnPc,           \* the flush_now caller: "idle", or "flush" between cancel() and _flush()
    now,            \* time.time(), in clock ticks
    \* ---- history variables of the queue
    puts,           \* number of put() calls so far
    lastIn,         \* per path: the last event put since the last flush, or NoEvent
    sawDeleted,     \* per path: a 'deleted' was put since the last flush
    flushOut,       \* the events the running _flush has put on outq so far
    drainSnap,      \* pending as it was when the running _flush took the lock
    owed,           \* the entries that were pending when a _flush took the lock and
                    \* that get() has not returned yet, oldest first
    outstanding,    \* pending entries put() has created minus events get() has returned
    \* ---- catalog and applier
    files,          \* table files, rows in insertion order
    history,        \* table file_history, rows in insertion order
    result,         \* TrackerResult of the running process_events call
    \* ---- history variables of the pipeline
    burst,          \* per path: the event types put since the last flush, in order
    outqBurst,      \* for each event on outq, the burst it was coalesced from
    applied,        \* the events process_events has handled, in order, each with what
                    \* the archive held at the path its handler opened
    \* ---- reconcile, transactions, the daemon and the archive
    recon,          \* reconcile(): the runs finished, where the running one is (pc), the
                    \* rows it fetched, and for the last run finished the paths
                    \* os.path.exists found, its result.deleted, Len(applied) when it
                    \* fetched, and whether it followed a run with the same paths
                    \* existing and no event handled since that run fetched (again)
    tx,             \* the history record a handler that committed its mutation has
                    \* still to write (NoRecord for none), and the mutations committed
    running,        \* self._running; FALSE once run_daemon has been interrupted and
                    \* its stop() has returned
    fs,             \* the archive: what each path holds
    \* ---- the components beside the tracker
    db,             \* the database file migrate_path_tracker.py works on: the target
                    \* columns of files, the tables, the indexes, the rows of files
                    \* and of _migrations, and the backup copies beside the file
    mig,            \* the runs of migrate_database: the run in hand and the last two
                    \* finished, each with its result and the database before it
    adapter,        \* SheetsSyncAdapter: its services, its _state, the callbacks it
                    \* has invoked during the call in hand, and the last call
    call            \* the call of a pure function in hand: its inputs and its value

qvars == <<pending, outq, lock, flushPos, timerArmed, timerDeadline, timersWaiting,
           fnPc, now, puts, lastIn, sawDeleted, flushOut, drainSnap, owed,
           outstanding>>
cvars == <<recon, tx, running, fs>>
xvars == <<db, mig, adapter, call>>
tvars == <<files, history, result, burst, outqBurst, applied, cvars, xvars>>
vars == <<qvars, tvars>>

----------------------------------------------------------------------------
(* Bounds of the model *)

\* put() calls in a behaviour
MaxPuts == 3
\* the clock stops here; put() is accepted while its timer can still expire
MaxTime == 3
\* clock ticks in one debounce interval (TrackerConfig.debounce_seconds)
DebounceTicks == 2
\* events the observer puts in a behaviour of the pipeline
MaxEvents == 3
\* reconcile() runs in a behaviour
MaxReconciles == 2

----------------------------------------------------------------------------
(* Paths: strings, as sequences of characters *)

P1 == <<"/", "A", "/", "x">>
P2 == <<"/", "A", "/", "y">>
\* P1 in another letter case
P3 == <<"/", "a", "/", "X">>

Paths == {P1, P2, P3}

\* the paths the observer reports events on
Watched == {P1, P2}

\* Optional[str] None (and the empty string, which `not dst_path` treats alike)
NoPath == <<>>

EventTypes == {"created", "modified", "moved", "deleted"}

\* TrackerEvent
TrackerEvent(type, src, dst, ts) ==
    [event_type |-> type, src_path |-> src, dst_path |-> dst, timestamp |-> ts]

NoEvent == [event_type |-> "none"]

----------------------------------------------------------------------------
(* EventQueue *)

\* a lookup that finds a key only in the entry put last
KeyIndexLastOnly(pend, key) ==
    IF Len(pend) > 0 /\ pend[Len(pend)].src_path = key THEN Len(pend) ELSE 0

\* position of key in the pending dict, 0 when `key in self._pending` is false
KeyIndex(pend, key) ==
    IF \E i \in 1..Len(pend) : pend[i].src_path = key
    THEN CHOOSE i \in 1..Len(pend) : pend[i].src_path = key
    ELSE 0

\* put() in which a pending 'deleted' is replaced like any other event
PutPendingNoAbsorb(pend, event) ==
    LET i == KeyIndex(pend, event.src_path) IN
    IF i # 0
    THEN IF event.event_type = "deleted" THEN [pend EXCEPT ![i] = event]
         ELSE IF event.timestamp > pend[i].timestamp THEN [pend EXCEPT ![i] = event]
         ELSE pend
    ELSE Append(pend, event)

\* the pending dict after put(event)
PutPending(pend, event) ==
    LET i == KeyIndex(pend, event.src_path) IN
    IF i # 0
    THEN IF pend[i].event_type = "deleted" THEN pend
         ELSE IF event.event_type = "deleted" THEN [pend EXCEPT ![i] = event]
         ELSE IF event.timestamp > pend[i].timestamp THEN [pend EXCEPT ![i] = event]
         ELSE pend
    ELSE Append(pend, event)

\* put() that never starts a timer
PutNeverResetsTimer(pend, event) == FALSE

\* whether put(event) reaches self._reset_flush_timer()
PutResetsTimer(pend, event) ==
    LET i == KeyIndex(pend, event.src_path) IN
    ~(i # 0 /\ pend[i].event_type = "deleted")

\* a lock that excludes nobody
LockIgnored == TRUE

\* `with self._lock:` can be entered
LockFree == lock = "free"

\* the events an observer can put at time ts
EventsAt(ts) ==
    { TrackerEvent(t, s, NoPath, ts) : t \in EventTypes \ {"moved"}, s \in Watched }
    \cup UNION { { TrackerEvent("moved", s, d, ts) : d \in Watched \ {s} } : s \in Watched }

QPut(event) ==
    /\ LockFree
    /\ puts < MaxPuts
    /\ now + DebounceTicks <= MaxTime
    /\ pending' = PutPending(pending, event)
    /\ IF PutResetsTimer(pending, event)
       THEN timerArmed' = TRUE /\ timerDeadline' = now + DebounceTicks
       ELSE UNCHANGED <<timerArmed, timerDeadline>>
    /\ puts' = puts + 1
    /\ lastIn' = [lastIn EXCEPT ![event.src_path] = event]
    /\ sawDeleted' = [sawDeleted EXCEPT ![event.src_path] = @ \/ event.event_type = "deleted"]
    /\ outstanding' = outstanding + (IF lastIn[event.src_path] = NoEvent THEN 1 ELSE 0)

Put ==
    /\ \E event \in EventsAt(now) : QPut(event)
    /\ UNCHANGED <<outq, lock, flushPos, timersWaiting, fnPc, now, flushOut, drainSnap, owed>>
    /\ UNCHANGED tvars

\* threading.Timer.run: the wait ended without cancel(); the thread goes on to _flush
TimerExpire ==
    /\ timerArmed
    /\ now >= timerDeadline
    /\ timerArmed' = FALSE
    /\ timerDeadline' = 0
    /\ timersWaiting' = timersWaiting + 1
    /\ UNCHANGED <<pending, outq, lock, flushPos, fnPc, now, puts, lastIn,
                   sawDeleted, flushOut, drainSnap, owed>>
    /\ UNCHANGED <<outstanding, tvars>>

\* flush_now, first half: cancel the timer
FlushNowCancel ==
    /\ fnPc = "idle"
    /\ fnPc' = "flush"
    /\ timerArmed' = FALSE
    /\ timerDeadline' = 0
    /\ UNCHANGED <<pending, outq, lock, flushPos, timersWaiting, now, puts, 
                   lastIn, sawDeleted, flushOut, drainSnap, owed>>
    /\ UNCHANGED <<outstanding, tvars>>

\* _flush: `with self._lock:` entered by a Timer thread or by the flush_now caller
FlushAcquire ==
    /\ LockFree
    /\ \E who \in {"timer", "flush_now"} :
        /\ who = "timer" => timersWaiting > 0
        /\ who = "flush_now" => fnPc = "flush"
        /\ lock' = who
    /\ flushPos' = 0
    /\ flushOut' = <<>>
    /\ drainSnap' = pending
    /\ owed' = owed \o pending
    /\ UNCHANGED <<pending, outq, timerArmed, timerDeadline, timersWaiting, fnPc, now, puts,
                   lastIn, sawDeleted>>
    /\ UNCHANGED <<outstanding, tvars>>

\* _flush: one round of `for event in self._pending.values(): self._queue.put(event)`
FlushCopy ==
    /\ lock # "free"
    /\ flushPos < Len(pending)
    /\ outq' = Append(outq, pending[flushPos + 1])
    /\ flushOut' = Append(flushOut, pending[flushPos + 1])
    /\ flushPos' = flushPos + 1
    /\ UNCHANGED <<pending, lock, timerArmed, timerDeadline, timersWaiting, fnPc, now, puts,
                   lastIn, sawDeleted, drainSnap, owed>>
    /\ UNCHANGED <<outstanding, tvars>>

\* the pending dict after self._pending.clear()
Cleared(pend) == <<>>

\* _flush: the loop is over; self._pending.clear() and the lock is released
FlushClear ==
    /\ lock # "free"
    /\ flushPos >= Len(pending)
    /\ pending' = Cleared(pending)
    /\ flushPos' = 0
    /\ IF lock = "timer"
       THEN timersWaiting' = timersWaiting - 1 /\ UNCHANGED fnPc
       ELSE fnPc' = "idle" /\ UNCHANGED timersWaiting
    /\ lock' = "free"
    /\ lastIn' = [p \in Paths |-> NoEvent]
    /\ sawDeleted' = [p \in Paths |-> FALSE]
    /\ flushOut' = <<>>
    /\ drainSnap' = <<>>
    /\ UNCHANGED <<outq, timerArmed, timerDeadline, now, puts, owed>>
    /\ UNCHANGED <<outstanding, tvars>>

\* get(): self._queue.get returned an event
Get ==
    /\ outq # <<>>
    /\ owed' = IF owed = <<>> THEN <<>> ELSE Tail(owed)
    /\ outstanding' = outstanding - 1
    /\ outq' = Tail(outq)
    /\ UNCHANGED <<pending, lock, flushPos, timerArmed, timerDeadline, timersWaiting, fnPc,
                   now, puts, lastIn, sawDeleted, flushOut, drainSnap>>
    /\ UNCHANGED tvars

\* one clock tick passes
Tick ==
    /\ now < MaxTime
    /\ now' = now + 1
    /\ UNCHANGED <<pending, outq, lock, flushPos, timerArmed, timerDeadline, timersWaiting,
                   fnPc, puts, lastIn, sawDeleted, flushOut, drainSnap, owed>>
    /\ UNCHANGED <<outstanding, tvars>>


----------------------------------------------------------------------------
(* Path utilities (utils/path.py) *)

\* str.lower() on the characters of the model's paths
Lower(c) ==
    CASE c = "A" -> "a"
      [] c = "X" -> "x"
      [] c = "Y" -> "y"
      [] OTHER -> c

\* normalize_nas_path
NormalizeNasPath(path, remove_prefix) ==
    IF path = <<>> THEN <<>>
    ELSE LET normalized ==
                [i \in 1..Len(path) |-> Lower(IF path[i] = "\\" THEN "/" ELSE path[i])]
         IN  IF remove_prefix /\ Len(normalized) >= 2
                 /\ normalized[1] = "/" /\ normalized[2] = "/"
             THEN SubSeq(normalized, 3, Len(normalized))
             ELSE normalized

\* hashlib.md5(s.encode()).hexdigest()[:16]: a digest, one per input string
Md5Hex16(str) == <<"md5", str>>

\* generate_file_id
GenerateFileId(nas_path) == Md5Hex16(NormalizeNasPath(nas_path, FALSE))

\* os.path.basename
Basename(path) ==
    LET seps == { i \in 1..Len(path) : path[i] = "/" }
        last == IF seps = {} THEN 0 ELSE CHOOSE i \in seps : \A j \in seps : j <= i
    IN  SubSeq(path, last + 1, Len(path))

----------------------------------------------------------------------------
(* The archive and FileIdentityStore *)

\* what a file holds: the hash of its header and its size
Contents == { [content_hash |-> "h1", size |-> 10], [content_hash |-> "h2", size |-> 20] }

\* no file at the path
NoFile == [absent |-> TRUE]

\* a file that exists and cannot be opened (locked, permission denied)
Locked == [locked |-> TRUE]

\* a path of the archive holds a readable file, no file, or a file that cannot be opened
FsValues == Contents \cup {NoFile, Locked}

\* Optional[FileIdentity] None
NotReadable == [none |-> TRUE]

\* FileIdentityStore.compute on a path that holds `at`: the identity, or None on OSError
Compute(at, path) ==
    IF at \in Contents
    THEN [size |-> at.size, filename |-> Basename(path), content_hash |-> at.content_hash]
    ELSE NotReadable

\* SQL NULL
NULL == "NULL"

\* a lookup that compares the hash with the filename column
FindByHashAndSizeWrongColumn(rows, content_hash, size) ==
    { i \in 1..Len(rows) :
        /\ rows[i].filename = content_hash
        /\ rows[i].size_bytes = size
        /\ rows[i].status = "active" }

\* the rows FileIdentityStore.find_by_hash_and_size selects from
FindByHashAndSize(rows, content_hash, size) ==
    { i \in 1..Len(rows) :
        /\ rows[i].content_hash = content_hash
        /\ rows[i].size_bytes = size
        /\ rows[i].status = "active" }

\* cursor.fetchone() on a set of selected rows: one of them, 0 for no row
FetchOne(selected) == IF selected = {} THEN {0} ELSE selected

\* the row with nas_path = path (nas_path is UNIQUE), 0 for no row
RowAtPath(rows, path) ==
    IF \E i \in 1..Len(rows) : rows[i].nas_path = path
    THEN CHOOSE i \in 1..Len(rows) : rows[i].nas_path = path
    ELSE 0

\* a lookup by nas_path alone
ActiveRowAtPathAnyStatus(rows, path) ==
    IF \E i \in 1..Len(rows) : rows[i].nas_path = path
    THEN CHOOSE i \in 1..Len(rows) : rows[i].nas_path = path
    ELSE 0

\* the row with nas_path = path AND status = 'active', 0 for no row
ActiveRowAtPath(rows, path) ==
    IF \E i \in 1..Len(rows) : rows[i].nas_path = path /\ rows[i].status = "active"
    THEN CHOOSE i \in 1..Len(rows) : rows[i].nas_path = path /\ rows[i].status = "active"
    ELSE 0

\* a table files whose nas_path column is not UNIQUE
UpdateNeverViolates(rows, i, path) == FALSE

\* sqlite3.IntegrityError of UPDATE files SET nas_path = path on row i
UpdateViolatesUnique(rows, i, path) ==
    \E j \in 1..Len(rows) : j # i /\ rows[j].nas_path = path

\* sqlite3.IntegrityError of INSERT INTO files (id PRIMARY KEY, nas_path UNIQUE)
InsertViolatesUnique(rows, id, path) ==
    \E j \in 1..Len(rows) : rows[j].id = id \/ rows[j].nas_path = path

----------------------------------------------------------------------------
(* NASPathTracker: the event handlers.  Each yields the tables after the     *)
(* call, the handler's return value and whether it raised.                   *)

Outcome(rows, hist, ret, raised) ==
    [files |-> rows, history |-> hist, ret |-> ret, raised |-> raised]

\* a history write that replaces the newest record
LogHistoryOverLast(hist, file_id, event_type, old_path, new_path, old_hash, new_hash) ==
    Append(IF hist = <<>> THEN hist ELSE SubSeq(hist, 1, Len(hist) - 1),
           [file_id |-> file_id, event_type |-> event_type,
            old_path |-> old_path, new_path |-> new_path,
            old_hash |-> old_hash, new_hash |-> new_hash])

\* _log_history: one row appended to file_history
LogHistory(hist, file_id, event_type, old_path, new_path, old_hash, new_hash) ==
    Append(hist, [file_id |-> file_id, event_type |-> event_type,
                  old_path |-> old_path, new_path |-> new_path,
                  old_hash |-> old_hash, new_hash |-> new_hash])

\* a path update that also derives the id again, from the new path
UpdatePathNewId(rows, i, new_path) ==
    [rows EXCEPT ![i].nas_path = new_path, ![i].filename = Basename(new_path),
                 ![i].id = GenerateFileId(new_path)]

\* _update_path: UPDATE files SET nas_path, filename WHERE id = the id of row i
UpdatePath(rows, i, new_path) ==
    [rows EXCEPT ![i].nas_path = new_path, ![i].filename = Basename(new_path)]

\* _create_file
CreateFile(rows, hist, path, identity) ==
    LET file_id == GenerateFileId(path) IN
    IF InsertViolatesUnique(rows, file_id, path)
    THEN Outcome(rows, hist, FALSE, TRUE)
    ELSE Outcome(
            Append(rows, [id |-> file_id, nas_path |-> path,
                          filename |-> identity.filename,
                          size_bytes |-> identity.size,
                          content_hash |-> identity.content_hash,
                          status |-> "active", deleted_at |-> NULL]),
            LogHistory(hist, file_id, "created", NoPath, path, NULL, NULL),
            TRUE, FALSE)

\* no history record
NoRecord == [file_id |-> "none"]

\* _handle_created; k is the row find_by_hash_and_size fetched, 0 for none
HandleCreated(rows, hist, at, path, k) ==
    LET identity == Compute(at, path) IN
    IF identity = NotReadable THEN Outcome(rows, hist, FALSE, FALSE)
    ELSE IF k # 0
    THEN IF UpdateViolatesUnique(rows, k, path)
         THEN Outcome(rows, hist, FALSE, TRUE)
         ELSE Outcome(UpdatePath(rows, k, path),
                      LogHistory(hist, rows[k].id, "moved", rows[k].nas_path, path,
                                 NULL, NULL),
                      TRUE, FALSE)
    ELSE CreateFile(rows, hist, path, identity)

\* a soft delete that leaves deleted_at as it is
HandleDeletedStatusOnly(rows, hist, path) ==
    LET i == ActiveRowAtPath(rows, path) IN
    IF i = 0 THEN Outcome(rows, hist, FALSE, FALSE)
    ELSE Outcome([rows EXCEPT ![i].status = "deleted"],
                 LogHistory(hist, rows[i].id, "deleted", path, NoPath, NULL, NULL),
                 TRUE, FALSE)

\* _handle_deleted
HandleDeleted(rows, hist, path) ==
    LET i == ActiveRowAtPath(rows, path) IN
    IF i = 0 THEN Outcome(rows, hist, FALSE, FALSE)
    ELSE Outcome([rows EXCEPT ![i].status = "deleted", ![i].deleted_at = "now"],
                 LogHistory(hist, rows[i].id, "deleted", path, NoPath, NULL, NULL),
                 TRUE, FALSE)

\* _handle_moved; k is the row fetched when the handler falls back to _handle_created
HandleMoved(rows, hist, at, src_path, dst_path, k) ==
    IF dst_path = NoPath THEN Outcome(rows, hist, FALSE, FALSE)
    ELSE LET i == RowAtPath(rows, src_path) IN
         IF i = 0 THEN HandleCreated(rows, hist, at, dst_path, k)
         ELSE IF UpdateViolatesUnique(rows, i, dst_path)
         THEN Outcome(rows, hist, FALSE, TRUE)
         ELSE Outcome(UpdatePath(rows, i, dst_path),
                      LogHistory(hist, rows[i].id, "moved", src_path, dst_path, NULL, NULL),
                      TRUE, FALSE)

\* a 'modified' handler that updates and logs whether or not the hash changed
HandleModifiedAlways(rows, hist, at, path) ==
    LET identity == Compute(at, path) IN
    IF identity = NotReadable THEN Outcome(rows, hist, FALSE, FALSE)
    ELSE LET i == RowAtPath(rows, path) IN
         IF i = 0 THEN Outcome(rows, hist, FALSE, FALSE)
         ELSE Outcome([rows EXCEPT ![i].content_hash = identity.content_hash,
                                   ![i].size_bytes = identity.size],
                      LogHistory(hist, rows[i].id, "modified", path, path,
                                 rows[i].content_hash, identity.content_hash),
                      TRUE, FALSE)

\* _handle_modified
HandleModified(rows, hist, at, path) ==
    LET identity == Compute(at, path) IN
    IF identity = NotReadable THEN Outcome(rows, hist, FALSE, FALSE)
    ELSE LET i == RowAtPath(rows, path) IN
         IF i = 0 THEN Outcome(rows, hist, FALSE, FALSE)
         ELSE IF rows[i].content_hash # identity.content_hash
         THEN Outcome([rows EXCEPT ![i].content_hash = identity.content_hash,
                                   ![i].size_bytes = identity.size],
                      LogHistory(hist, rows[i].id, "modified", path, path,
                                 rows[i].content_hash, identity.content_hash),
                      TRUE, FALSE)
         ELSE Outcome(rows, hist, FALSE, FALSE)

\* the path whose file the handler of `event` opens (compute), NoPath if it opens none
OpenedPath(rows, event) ==
    CASE event.event_type \in {"created", "modified"} -> event.src_path
      [] event.event_type = "moved" /\ event.dst_path # NoPath
         /\ RowAtPath(rows, event.src_path) = 0 -> event.dst_path
      [] OTHER -> NoPath

\* what the archive can hold at the path the handler of `event` opens
CanHold(rows, event) ==
    IF OpenedPath(rows, event) = NoPath THEN {NoFile} ELSE FsValues

\* the rows find_by_hash_and_size can fetch while `event` is handled
Fetchable(rows, at, event) ==
    LET path == IF event.event_type = "moved" THEN event.dst_path ELSE event.src_path
        identity == IF path = NoPath THEN NotReadable ELSE Compute(at, path)
    IN  IF event.event_type \in {"created", "moved"} /\ identity # NotReadable
        THEN FetchOne(FindByHashAndSize(rows, identity.content_hash, identity.size))
        ELSE {0}

\* process_events: the handler chosen by event_type
Dispatch(rows, hist, at, event, k) ==
    CASE event.event_type = "created" ->
            HandleCreated(rows, hist, at, event.src_path, k)
      [] event.event_type = "deleted" ->
            HandleDeleted(rows, hist, event.src_path)
      [] event.event_type = "moved" ->
            HandleMoved(rows, hist, at, event.src_path, event.dst_path, k)
      [] event.event_type = "modified" ->
            HandleModified(rows, hist, at, event.src_path)
      [] OTHER -> Outcome(rows, hist, FALSE, FALSE)

\* a process_events that counts the event before its handler has returned
CountedBeforeReturn(res, event, out) ==
    LET counted == CASE event.event_type = "created" -> [res EXCEPT !.created = @ + 1]
                     [] event.event_type = "deleted" -> [res EXCEPT !.deleted = @ + 1]
                     [] event.event_type = "moved" -> [res EXCEPT !.moved = @ + 1]
                     [] event.event_type = "modified" -> [res EXCEPT !.updated = @ + 1]
                     [] OTHER -> res
    IN  IF out.raised THEN [counted EXCEPT !.errors = Append(@, event.src_path)]
        ELSE IF ~out.ret THEN res ELSE counted

\* process_events: the TrackerResult after a handler returned or raised
Counted(res, event, out) ==
    IF out.raised THEN [res EXCEPT !.errors = Append(@, event.src_path)]
    ELSE IF ~out.ret THEN res
    ELSE CASE event.event_type = "created" -> [res EXCEPT !.created = @ + 1]
           [] event.event_type = "deleted" -> [res EXCEPT !.deleted = @ + 1]
           [] event.event_type = "moved" -> [res EXCEPT !.moved = @ + 1]
           [] event.event_type = "modified" -> [res EXCEPT !.updated = @ + 1]
           [] OTHER -> res

----------------------------------------------------------------------------
(* scripts/migrate_path_tracker.py: the database it migrates *)

MIGRATION_VERSION == "41.1.0"

\* new_columns of migrate_files_table, in the order they are added
NewColumns == <<"status", "content_hash", "deleted_at", "last_verified_at">>

\* the value SQLite gives the rows that exist when ALTER TABLE adds the column:
\* the DEFAULT of its definition, NULL when it has none
ColumnDefault(col_name) == IF col_name = "status" THEN "active" ELSE NULL

\* indexes of create_indexes
MigrationIndexes ==
    << [name |-> "idx_files_status", table |-> "files", column |-> "status"],
       [name |-> "idx_files_content_hash", table |-> "files", column |-> "content_hash"],
       [name |-> "idx_file_history_file_id", table |-> "file_history", column |-> "file_id"],
       [name |-> "idx_file_history_detected_at", table |-> "file_history",
        column |-> "detected_at"],
       [name |-> "idx_file_history_event_type", table |-> "file_history",
        column |-> "event_type"] >>

Range(seq) == { seq[i] : i \in DOMAIN seq }

\* get_existing_columns(conn, "files"), restricted to the columns the migration adds
GetExistingColumns(d) == d.columns

\* table_exists
TableExists(d, table) == table \in d.tables

\* an invocation that takes every column for present
MissingColumnsNone(d) == <<>>

\* the columns migrate_files_table finds missing, in the order of new_columns
MissingColumns(d) ==
    SelectSeq(NewColumns, LAMBDA col_name : col_name \notin GetExistingColumns(d))

\* an ALTER TABLE that gave every row the default in every target column
AddColumnsOverwriting(d, dry_run) ==
    IF dry_run THEN d
    ELSE [d EXCEPT
            !.columns = Range(NewColumns),
            !.rows = [i \in DOMAIN d.rows |->
                        [d.rows[i] EXCEPT !.cols =
                            [c \in Range(NewColumns) |-> ColumnDefault(c)]]]]

\* migrate_files_table: ALTER TABLE files ADD COLUMN for each missing column, unless
\* dry_run; the rows that exist get the column with its default
AddColumns(d, dry_run) ==
    IF dry_run THEN d
    ELSE LET missing == Range(MissingColumns(d))
             Widened(row) ==
                 [row EXCEPT !.cols =
                     [c \in DOMAIN row.cols \cup missing |->
                         IF c \in DOMAIN row.cols THEN row.cols[c] ELSE ColumnDefault(c)]]
         IN  [d EXCEPT !.columns = d.columns \cup missing,
                       !.rows = [i \in DOMAIN d.rows |-> Widened(d.rows[i])]]

\* create_file_history_table: its return value
HistoryTableMissing(d) == ~TableExists(d, "file_history")

\* create_file_history_table: CREATE TABLE file_history, unless it exists or dry_run
CreateFileHistoryTable(d, dry_run) ==
    IF HistoryTableMissing(d) /\ ~dry_run
    THEN [d EXCEPT !.tables = @ \cup {"file_history"}]
    ELSE d

\* the indexes create_indexes does not find in sqlite_master
MissingIndexes(d) ==
    SelectSeq(MigrationIndexes, LAMBDA idx : idx.name \notin d.indexes)

\* create_indexes: CREATE INDEX for each missing index, unless dry_run
CreateIndexes(d, dry_run) ==
    IF dry_run THEN d
    ELSE [d EXCEPT !.indexes = @ \cup { idx.name : idx \in Range(MissingIndexes(d)) }]

\* create_indexes: its return value counts the statements executed
IndexesCreated(d, dry_run) == IF dry_run THEN 0 ELSE Len(MissingIndexes(d))

\* record_migration: CREATE TABLE IF NOT EXISTS _migrations is executed whatever
\* dry_run is, and as a DDL statement outside a transaction it is in the file at
\* once; INSERT OR REPLACE of the version row, stamped CURRENT_TIMESTAMP, unless
\* dry_run
RecordMigration(d, version, dry_run, at) ==
    LET created == [d EXCEPT !.tables = @ \cup {"_migrations"}]
    IN  IF dry_run THEN created
        ELSE [created EXCEPT
                !.migrations = { r \in @ : r.version # version }
                                 \cup {[version |-> version, applied_at |-> at]}]

\* backup_database: a copy named after the second it is taken in, unless dry_run
BackupDatabase(d, dry_run, at) ==
    IF dry_run THEN d ELSE [d EXCEPT !.backups = @ \cup {at}]

\* the result dict of migrate_database before any step
NoMigrationResult ==
    [columns_added |-> 0, tables_created |-> 0, indexes_created |-> 0, success |-> FALSE]

\* migrate_database: the database it leaves
MigratedDb(d, dry_run, at) ==
    IF ~d.exists THEN d
    ELSE LET backed == BackupDatabase(d, dry_run, at)
         IN  IF ~TableExists(backed, "files") THEN backed
             ELSE RecordMigration(
                      CreateIndexes(
                          CreateFileHistoryTable(AddColumns(backed, dry_run), dry_run),
                          dry_run),
                      MIGRATION_VERSION, dry_run, at)

\* migrate_database: the result it returns
MigrationResult(d, dry_run) ==
    IF ~d.exists \/ ~TableExists(d, "files") THEN NoMigrationResult
    ELSE [columns_added |-> Len(MissingColumns(d)),
          tables_created |-> IF HistoryTableMissing(d) THEN 1 ELSE 0,
          indexes_created |-> IndexesCreated(d, dry_run),
          success |-> TRUE]

\* no database file
NoDb ==
    [exists |-> FALSE, tables |-> {}, columns |-> {}, indexes |-> {}, rows |-> <<>>,
     migrations |-> {}, backups |-> {}]

\* no run of migrate_database yet
NoRun == [dry_run |-> FALSE, result |-> NoMigrationResult, before |-> NoDb]

\* no run yet, the clock at its origin
MigIdle == [runs |-> 0, clock |-> 0, last |-> NoRun, prev |-> NoRun]

----------------------------------------------------------------------------
(* sheets_adapter.py: SheetsSyncAdapter *)

\* SyncDirection
Directions == {"db_to_sheets", "sheets_to_db", "hands_sync", "bidirectional"}

\* what the calls an operation makes on its service come to: they all return, or one
\* of them raises Exception with this text
ServiceOutcomes == {"ok", "API Error", "Connection failed"}

\* tables = None
NoTables == <<>>

\* config.tables_to_sync of the sheets service
TablesToSync == {"files", "hands"}

\* SheetsSyncAdapter.__init__ with the given services; no callback registered
NewAdapter(sheets_service, hands_sync) ==
    [sheets_service |-> sheets_service, hands_sync |-> hands_sync,
     on_complete |-> FALSE, on_error |-> FALSE,
     \* _last_sync_time: <<>> for None, <<t>> for the time t
     last_sync_time |-> <<>>, last_direction |-> NULL, error_message |-> NULL,
     \* history: the clock, the public operations called, the last one with its
     \* result and the callbacks registered when it was entered, and what happened
     \* during it: the results on_complete was invoked with, the exceptions
     \* on_error was invoked with, the exceptions its service raised
     clock |-> 0, calls |-> 0, op |-> "none", ret |-> [success |-> FALSE],
     registered |-> [on_complete |-> FALSE, on_error |-> FALSE],
     completes |-> <<>>, errs |-> <<>>, raised |-> <<>>]

AdapterIdle == NewAdapter(FALSE, FALSE)

\* an _update_state that leaves _error_message as it is
UpdateStateKeepsError(a, r) ==
    [a EXCEPT !.last_sync_time = <<a.clock>>,
              !.last_direction = r.direction,
              !.completes = IF a.on_complete THEN Append(@, r) ELSE @]

\* _update_state
UpdateState(a, r) ==
    [a EXCEPT !.last_sync_time = <<a.clock>>,
              !.last_direction = r.direction,
              !.error_message = IF r.success THEN NULL
                                ELSE IF r.errors # <<>> THEN r.errors[1] ELSE NULL,
              !.completes = IF a.on_complete THEN Append(@, r) ELSE @]

\* _no_service_result
NoServiceResult(a, direction) ==
    LET error_msg == "Service not configured"
    IN  [adapter |-> [a EXCEPT !.error_message = error_msg],
         result |-> [success |-> FALSE, direction |-> direction,
                     errors |-> <<error_msg>>, tables_synced |-> {}]]

\* _error_result, for the exception with text `error` a service has raised
ErrorResult(a, direction, error) ==
    LET error_msg == error
    IN  [adapter |-> [a EXCEPT !.error_message = error_msg,
                               !.errs = IF a.on_error THEN Append(@, error) ELSE @,
                               !.raised = Append(@, error)],
         result |-> [success |-> FALSE, direction |-> direction,
                     errors |-> <<error_msg>>, tables_synced |-> {}]]

\* the body the three one-way operations share, after their service check: the
\* service calls, then the result and _update_state, or the except branch
Synced(a, direction, tables_synced, outcome) ==
    IF outcome = "ok"
    THEN LET r == [success |-> TRUE, direction |-> direction, errors |-> <<>>,
                   tables_synced |-> tables_synced]
         IN  [adapter |-> UpdateState(a, r), result |-> r]
    ELSE ErrorResult(a, direction, outcome)

\* _get_synced_tables, or the tables asked for
TablesSynced(tables) == IF tables # NoTables THEN Range(tables) ELSE TablesToSync

\* sync_to_sheets
SyncToSheets(a, tables, outcome) ==
    IF ~a.sheets_service THEN NoServiceResult(a, "db_to_sheets")
    ELSE Synced(a, "db_to_sheets", TablesSynced(tables), outcome)

\* sync_from_sheets
SyncFromSheets(a, tables, outcome) ==
    IF ~a.sheets_service THEN NoServiceResult(a, "sheets_to_db")
    ELSE Synced(a, "sheets_to_db", TablesSynced(tables), outcome)

\* sync_hands
SyncHands(a, outcome) ==
    IF ~a.hands_sync THEN NoServiceResult(a, "hands_sync")
    ELSE Synced(a, "hands_sync", {"hands", "hand_players", "hand_tags"}, outcome)

\* sync_bidirectional: sync_from_sheets, then sync_to_sheets, each with its own
\* _update_state or _error_result, then the combined result and _update_state
SyncBidirectional(a, tables, outcome1, outcome2) ==
    IF ~a.sheets_service THEN NoServiceResult(a, "bidirectional")
    ELSE LET one == SyncFromSheets(a, tables, outcome1)
             two == SyncToSheets(one.adapter, tables, outcome2)
             r == [success |-> one.result.success /\ two.result.success,
                   direction |-> "bidirectional",
                   errors |-> one.result.errors \o two.result.errors,
                   tables_synced |-> one.result.tables_synced
                                        \cup two.result.tables_synced]
         IN  [adapter |-> UpdateState(two.adapter, r), result |-> r]

----------------------------------------------------------------------------
(* catalog_extractor.py: DynamicCatalogExtractor *)

(* A text is the sequence of its words and separators: " ", "/" and the extension
   ".mp4" are tokens of their own. A name (brand, event type, ...) is the sequence
   of its words, <<>> for None; " ".join puts the words of its parts in a row. *)

\* re.IGNORECASE: a word in capitals
UpperWord(w) ==
    CASE w = "Main" -> "MAIN"
      [] w = "Event" -> "EVENT"
      [] w = "Final" -> "FINAL"
      [] w = "Table" -> "TABLE"
      [] w = "Day" -> "DAY"
      [] w = "Circuit" -> "CIRCUIT"
      [] w = "Bracelet" -> "BRACELET"
      [] OTHER -> w

\* None, for a name
NoName == <<>>

\* None, for the year; `if metadata.year` takes 0 and None alike
NoYear == 0

\* the text without its whitespace: where a pattern has \s* between two words, it
\* matches when the words are neighbours here
Squeeze(text) == SelectSeq(text, LAMBDA t : t # " ")

\* pattern.search(text), for a case-insensitive pattern of words with \s* between
Search(text, words) ==
    LET sq == Squeeze(text)
    IN  \E i \in 1..(Len(sq) - Len(words) + 1) :
            \A k \in 1..Len(words) : UpperWord(sq[i + k - 1]) = words[k]

\* the loop `for pattern, name in patterns: if pattern.search(text): return name`:
\* the name of the first pattern of the list that matches, None when none does
FirstMatch(patterns, text) ==
    LET hits == { k \in DOMAIN patterns : Search(text, patterns[k].words) }
    IN  IF hits = {} THEN NoName
        ELSE patterns[CHOOSE k \in hits : \A j \in hits : k <= j].name

\* BRAND_PATTERNS, in order (pattern, short name)
BRAND_PATTERNS ==
    << [words |-> <<"WSOP">>, name |-> <<"WSOP">>],
       [words |-> <<"PAD">>, name |-> <<"PAD">>],
       [words |-> <<"MPP">>, name |-> <<"MPP">>],
       [words |-> <<"GOG">>, name |-> <<"GOG">>],
       [words |-> <<"GAME", "OF", "GOLD">>, name |-> <<"GOG">>],
       [words |-> <<"GGMILLIONS">>, name |-> <<"GGMillions">>],
       [words |-> <<"GG", "MILLIONS">>, name |-> <<"GGMillions">>],
       [words |-> <<"HCL">>, name |-> <<"HCL">>],
       [words |-> <<"HUSTLER">>, name |-> <<"HCL">>],
       [words |-> <<"POKERGO">>, name |-> <<"PokerGo">>] >>

\* LOCATION_PATTERNS, in order
LOCATION_PATTERNS ==
    << [words |-> <<"EUROPE">>, name |-> <<"Europe">>],
       [words |-> <<"LAS", "VEGAS">>, name |-> <<"Las", "Vegas">>],
       [words |-> <<"LV">>, name |-> <<"Las", "Vegas">>],
       [words |-> <<"PARADISE">>, name |-> <<"Paradise">>],
       [words |-> <<"CYPRUS">>, name |-> <<"Cyprus">>],
       [words |-> <<"LONDON">>, name |-> <<"London">>],
       [words |-> <<"LA">>, name |-> <<"Los", "Angeles">>],
       [words |-> <<"ASIA">>, name |-> <<"Asia">>] >>

\* EVENT_TYPE_PATTERNS, in order
EVENT_TYPE_PATTERNS ==
    << [words |-> <<"MAIN", "EVENT">>, name |-> <<"Main", "Event">>],
       [words |-> <<"ME">>, name |-> <<"Main", "Event">>],
       [words |-> <<"FINAL", "TABLE">>, name |-> <<"Final", "Table">>],
       [words |-> <<"FT">>, name |-> <<"Final", "Table">>],
       [words |-> <<"BRACELET">>, name |-> <<"Bracelet", "Event">>],
       [words |-> <<"CIRCUIT">>, name |-> <<"Circuit", "Event">>],
       [words |-> <<"HIGH", "ROLLER">>, name |-> <<"High", "Roller">>],
       [words |-> <<"HR">>, name |-> <<"High", "Roller">>],
       [words |-> <<"SUPER", "HIGH", "ROLLER">>, name |-> <<"Super", "High", "Roller">>],
       [words |-> <<"SHR">>, name |-> <<"Super", "High", "Roller">>],
       [words |-> <<"MYSTERY", "BOUNTY">>, name |-> <<"Mystery", "Bounty">>],
       [words |-> <<"BOUNTY">>, name |-> <<"Bounty">>],
       [words |-> <<"HEADS", "UP">>, name |-> <<"Heads", "Up">>],
       [words |-> <<"HU">>, name |-> <<"Heads", "Up">>],
       [words |-> <<"6", "MAX">>, name |-> <<"6-Max">>],
       [words |-> <<"PLO">>, name |-> <<"PLO">>],
       [words |-> <<"NLH">>, name |-> <<"NLH">>],
       [words |-> <<"COLOSSUS">>, name |-> <<"Colossus">>],
       [words |-> <<"MONSTER", "STACK">>, name |-> <<"Monster", "Stack">>] >>

\* CONTENT_TYPE_PATTERNS, in order
CONTENT_TYPE_PATTERNS ==
    << [words |-> <<"STREAM">>, name |-> <<"Stream">>],
       [words |-> <<"SUBCLIP">>, name |-> <<"Subclip">>],
       [words |-> <<"CLEAN">>, name |-> <<"Clean", "Version">>],
       [words |-> <<"NO", "COMMENTARY">>, name |-> <<"No", "Commentary">>],
       [words |-> <<"MASTERED">>, name |-> <<"Mastered">>],
       [words |-> <<"RAW">>, name |-> <<"Raw">>],
       [words |-> <<"GRAPHICS">>, name |-> <<"With", "Graphics">>] >>

\* SERIES_PATTERNS, in order
SERIES_PATTERNS ==
    << [words |-> <<"ARCHIVE">>, name |-> <<"Archive">>],
       [words |-> <<"BRACELET", "EVENT">>, name |-> <<"Bracelet", "Event">>],
       [words |-> <<"CIRCUIT", "EVENT">>, name |-> <<"Circuit", "Event">>],
       [words |-> <<"SUPER", "CIRCUIT">>, name |-> <<"Super", "Circuit">>] >>

\* _extract_brand
ExtractBrand(text) == FirstMatch(BRAND_PATTERNS, text)

\* _extract_location
ExtractLocation(text) == FirstMatch(LOCATION_PATTERNS, text)

\* _extract_event_type
ExtractEventType(text) == FirstMatch(EVENT_TYPE_PATTERNS, text)

\* _extract_content_type
ExtractContentType(text) == FirstMatch(CONTENT_TYPE_PATTERNS, text)

\* _extract_series
ExtractSeries(path) == FirstMatch(SERIES_PATTERNS, path)

\* int(y) for the tokens (19|20)\d{2} of the texts, 0 for any other token
YearValue(t) ==
    CASE t = "2024" -> 2024
      [] t = "2031" -> 2031
      [] OTHER -> NoYear

\* str(metadata.year)
StrYear(y) ==
    CASE y = 2024 -> "2024"
      [] y = 2031 -> "2031"
      [] OTHER -> "0"

\* _extract_year: YEAR_PATTERN.findall gives the four-digit tokens that stand between
\* separators or at an end of the text; the greatest within 1970..2030, else None
ExtractYear(text) ==
    LET Sep(i) == i < 1 \/ i > Len(text) \/ text[i] \in {"/", " "}
        matches == { i \in 1..Len(text) :
                        YearValue(text[i]) # NoYear /\ Sep(i - 1) /\ Sep(i + 1) }
        years == { YearValue(text[i]) : i \in matches } \cap 1970..2030
    IN  IF years = {} THEN NoYear
        ELSE CHOOSE y \in years : \A z \in years : z <= y

\* \d+[A-D]?
IsDayNumber(t) == t \in {"1", "2", "1A"}

\* _extract_day: DAY_PATTERN.search gives the leftmost match of
\* [Dd]ay\s*(\d+[A-D]?) | DAY\s*(\d+[A-D]?) | Final\s*(?:Day|Table) | FT
ExtractDay(filename) ==
    LET sq == Squeeze(filename)
        Numbered(i) == sq[i] \in {"Day", "day", "DAY"} /\ i < Len(sq)
                            /\ IsDayNumber(sq[i + 1])
        Final(i) == sq[i] = "Final" /\ i < Len(sq) /\ sq[i + 1] \in {"Day", "Table"}
        matches == { i \in 1..Len(sq) : Numbered(i) \/ Final(i) \/ sq[i] = "FT" }
    IN  IF matches = {} THEN NoName
        ELSE LET i == CHOOSE m \in matches : \A n \in matches : m <= n
             IN  IF Numbered(i) THEN <<"Day", sq[i + 1]>>
                 ELSE IF Final(i) THEN <<"Final", "Day">>
                 ELSE NoName

\* _extract_episode: [Ee]p(?:isode)?[\s_-]*(\d+); the S12-EP14 form is a token of
\* its own that is not among the words of the texts
ExtractEpisode(filename) ==
    LET sq == Squeeze(filename)
        matches == { i \in 1..(Len(sq) - 1) :
                        sq[i] \in {"Ep", "ep", "Episode", "episode"}
                            /\ IsDayNumber(sq[i + 1]) /\ sq[i + 1] # "1A" }
    IN  IF matches = {} THEN NoName
        ELSE LET i == CHOOSE m \in matches : \A n \in matches : m <= n
             IN  <<"Episode", sq[i + 1]>>

\* _extract_buy_in: an amount written with '$'
ExtractBuyIn(text) ==
    IF \E i \in 1..Len(text) : text[i] = "$10,000" THEN <<"$10,000">> ELSE NoName

\* [A-Z][a-z]{2,}
IsPlayerName(t) == t \in {"Main", "Event", "Final", "Table", "Day", "Circuit", "Bracelet"}

\* _extract_players: the two names around the first 'vs'
ExtractPlayers(filename) ==
    LET sq == Squeeze(filename)
        matches == { i \in 2..(Len(sq) - 1) :
                        sq[i] \in {"vs", "vs."} /\ IsPlayerName(sq[i - 1])
                            /\ IsPlayerName(sq[i + 1]) }
    IN  IF matches = {} THEN <<>>
        ELSE LET i == CHOOSE m \in matches : \A n \in matches : m <= n
             IN  IF sq[i - 1] = sq[i + 1] THEN << <<sq[i - 1]>> >>
                 ELSE << <<sq[i - 1]>>, <<sq[i + 1]>> >>

\* a list without its None / empty entries
NotNone(names) == SelectSeq(names, LAMBDA n : n # NoName)

\* _generate_tags
GenerateTags(metadata) ==
    NotNone(<< metadata.brand,
               IF metadata.year # NoYear THEN <<StrYear(metadata.year)>> ELSE NoName,
               metadata.location,
               metadata.event_type,
               metadata.content_type,
               metadata.buy_in >>) \o metadata.players

\* HAND_NUMBER_PATTERN.search(filename): the number after the first 'Hand'
HandNumber(filename) ==
    LET sq == Squeeze(filename)
        matches == { i \in 1..(Len(sq) - 1) :
                        sq[i] = "Hand" /\ IsDayNumber(sq[i + 1]) /\ sq[i + 1] # "1A" }
    IN  IF matches = {} THEN NoName
        ELSE <<sq[(CHOOSE m \in matches : \A n \in matches : m <= n) + 1]>>

\* _clean_filename: without the extension and without a number in front
CleanFilename(filename) ==
    LET name == SelectSeq(filename, LAMBDA t : t # ".mp4" /\ t # " ")
    IN  IF name # <<>> /\ IsDayNumber(Head(name)) /\ Head(name) # "1A"
        THEN Tail(name) ELSE name

\* _generate_title; " ".join(parts) puts the words of the parts in a row
GenerateTitle(metadata, filename) ==
    LET hand_match == HandNumber(filename)
        location == IF metadata.location \in {metadata.brand} THEN NoName
                    ELSE metadata.location
        year == IF metadata.year # NoYear THEN <<StrYear(metadata.year)>> ELSE NoName
        buy_in == IF metadata.buy_in \in {metadata.brand, location, year,
                                          metadata.event_type}
                  THEN NoName ELSE metadata.buy_in
        content_type ==
            IF metadata.content_type \in {NoName, <<"Stream">>, <<"Subclip">>}
            THEN NoName
            ELSE <<"(">> \o metadata.content_type \o <<")">>
        parts == metadata.brand \o location \o year \o metadata.event_type \o buy_in
                    \o metadata.day \o metadata.episode \o content_type
    IN  IF hand_match # NoName /\ metadata.players # <<>>
        THEN <<"Hand", "#">> \o hand_match \o <<":">> \o
                (IF Len(metadata.players) = 1 THEN metadata.players[1]
                 ELSE metadata.players[1] \o <<"vs">> \o metadata.players[2])
        ELSE IF parts # <<>> THEN parts
        ELSE CleanFilename(filename)

\* extract(path, filename)
Extract(path, filename) ==
    LET combined == path \o <<" ">> \o filename
        metadata ==
            [brand |-> ExtractBrand(combined),
             year |-> ExtractYear(path),
             location |-> ExtractLocation(combined),
             event_type |-> ExtractEventType(combined),
             content_type |-> ExtractContentType(combined),
             series |-> ExtractSeries(path),
             day |-> ExtractDay(filename),
             episode |-> ExtractEpisode(filename),
             buy_in |-> ExtractBuyIn(combined),
             players |-> ExtractPlayers(filename)]
        tagged == [f \in DOMAIN metadata \cup {"tags"} |->
                     IF f = "tags" THEN GenerateTags(metadata) ELSE metadata[f]]
    IN  [f \in DOMAIN tagged \cup {"generated_title"} |->
            IF f = "generated_title" THEN GenerateTitle(tagged, filename)
            ELSE tagged[f]]

----------------------------------------------------------------------------
(* The components beside the tracker, idle *)

\* no pure function is being called
NoCall == [fn |-> "none"]

XIdle ==
    /\ db = NoDb
    /\ mig = MigIdle
    /\ adapter = AdapterIdle
    /\ call = NoCall

----------------------------------------------------------------------------
(* Initial state: EventQueue.__init__ and an empty catalog *)

QInit ==
    /\ pending = <<>>
    /\ outq = <<>>
    /\ lock = "free"
    /\ flushPos = 0
    /\ timerArmed = FALSE
    /\ timerDeadline = 0
    /\ timersWaiting = 0
    /\ fnPc = "idle"
    /\ now = 0
    /\ puts = 0
    /\ lastIn = [p \in Paths |-> NoEvent]
    /\ sawDeleted = [p \in Paths |-> FALSE]
    /\ flushOut = <<>>
    /\ drainSnap = <<>>
    /\ owed = <<>>
    /\ outstanding = 0

TIdle ==
    /\ applied = <<>>
    /\ files = <<>>
    /\ history = <<>>
    /\ result = [created |-> 0, updated |-> 0, moved |-> 0, deleted |-> 0, errors |-> <<>>]
    /\ burst = [p \in Paths |-> <<>>]
    /\ outqBurst = <<>>
    /\ recon = [runs |-> 0, pc |-> "idle", rows |-> <<>>, exists |-> {}, deleted |-> 0,
                at |-> 0, again |-> FALSE, written |-> <<>>]
    /\ tx = [owed |-> NoRecord, mutations |-> 0]
    /\ running = TRUE
    /\ fs = [p \in Paths |-> NoFile]

----------------------------------------------------------------------------
(* The pipeline: observer -> EventQueue -> process_events -> catalog *)

\* the values time.time() can give an event put for path src: compared only with the
\* timestamp of the event pending for src, it is that timestamp or a later one
TimestampsFor(pend, src) ==
    LET i == KeyIndex(pend, src) IN
    IF i = 0 THEN {0} ELSE {pend[i].timestamp, pend[i].timestamp + 1}

\* NASEventHandler.on_*: an event is made and put
Observe ==
    /\ running
    /\ puts < MaxEvents
    /\ \E src \in Watched : \E ts \in TimestampsFor(pending, src) :
       \E event \in { e \in EventsAt(ts) : e.src_path = src } :
        /\ pending' = PutPending(pending, event)
        /\ burst' = [burst EXCEPT ![event.src_path] = Append(@, event.event_type)]
    /\ puts' = puts + 1
    /\ UNCHANGED <<outq, lock, flushPos, timerArmed, timerDeadline, timersWaiting, fnPc, now,
                   lastIn, sawDeleted, flushOut, drainSnap, owed, outstanding>>
    /\ UNCHANGED <<files, history, result, outqBurst, applied, cvars>>
    /\ UNCHANGED xvars

\* _flush as a whole, run by the timer or by flush_now
Flush ==
    /\ pending # <<>>
    /\ outq' = outq \o pending
    /\ outqBurst' = outqBurst \o [i \in 1..Len(pending) |-> burst[pending[i].src_path]]
    /\ pending' = Cleared(pending)
    /\ burst' = [p \in Paths |-> <<>>]
    /\ UNCHANGED <<lock, flushPos, timerArmed, timerDeadline, timersWaiting, fnPc, now, puts,
                   lastIn, sawDeleted, flushOut, drainSnap, owed, outstanding>>
    /\ UNCHANGED <<files, history, result, applied, cvars>>
    /\ UNCHANGED xvars

\* an entry of `applied`
Handled(event, at) ==
    [event_type |-> event.event_type, src_path |-> event.src_path,
     dst_path |-> event.dst_path, held |-> at]

\* process_events, one round of its loop: get() returned an event and it is handled
Apply ==
    /\ running
    /\ outq # <<>>
    /\ \E at \in CanHold(files, Head(outq)) : \E k \in Fetchable(files, at, Head(outq)) :
        LET out == Dispatch(files, history, at, Head(outq), k) IN
        /\ files' = out.files
        /\ history' = out.history
        /\ result' = Counted(result, Head(outq), out)
        /\ applied' = Append(applied, Handled(Head(outq), at))
    /\ outq' = Tail(outq)
    /\ outqBurst' = Tail(outqBurst)
    /\ UNCHANGED <<pending, lock, flushPos, timerArmed, timerDeadline, timersWaiting, fnPc,
                   now, puts, lastIn, sawDeleted, flushOut, drainSnap, owed, outstanding>>
    /\ UNCHANGED <<burst, cvars>>
    /\ UNCHANGED xvars

----------------------------------------------------------------------------
(* reconcile(), run while the tracker runs (python -m ... --reconcile) *)

\* a SELECT without the status filter
ActiveRowsAnyStatus(rows) == [i \in 1..Len(rows) |-> rows[i].nas_path]

\* reconcile: SELECT id, nas_path FROM files WHERE status = 'active'; fetchall()
ActiveRows(rows) ==
    [i \in { j \in 1..Len(rows) : rows[j].status = "active" } |-> rows[i].nas_path]

\* reconcile: the fetched rows whose path os.path.exists does not find
Missing(fetched, exists) == { i \in DOMAIN fetched : fetched[i] \notin exists }

\* reconcile: UPDATE files SET status = 'deleted', deleted_at = now WHERE id = ?, for
\* each fetched row whose path does not exist
MarkDeleted(rows, fetched, exists) ==
    [i \in 1..Len(rows) |->
        IF i \in Missing(fetched, exists)
        THEN [rows[i] EXCEPT !.status = "deleted", !.deleted_at = "now"]
        ELSE rows[i]]

\* reconcile: the columns its UPDATE statements set, row by row
ColumnsWritten(rows, fetched, exists) ==
    [i \in 1..Len(rows) |->
        IF i \in Missing(fetched, exists)
        THEN {"status", "deleted_at", "updated_at"} ELSE {}]

\* reconcile: the SELECT and fetchall()
ReconcileRead ==
    /\ recon.pc = "idle"
    /\ recon.runs < MaxReconciles
    /\ recon' = [recon EXCEPT !.pc = "fetched", !.rows = ActiveRows(files),
                              !.at = Len(applied),
                              !.again = recon.runs >= 1 /\ recon.at = Len(applied)]
    /\ UNCHANGED <<qvars, files, history, result, burst, outqBurst, applied,
                   tx, running, fs>>
    /\ UNCHANGED xvars

\* reconcile: the loop over the fetched rows and the commit; `exists` are the paths
\* of the fetched rows for which os.path.exists returned True
ReconcileWrite ==
    /\ recon.pc = "fetched"
    /\ \E exists \in SUBSET { recon.rows[i] : i \in DOMAIN recon.rows } :
        /\ files' = MarkDeleted(files, recon.rows, exists)
        /\ recon' = [runs |-> recon.runs + 1, pc |-> "idle", rows |-> <<>>,
                     exists |-> exists,
                     deleted |-> Cardinality(Missing(recon.rows, exists)),
                     at |-> recon.at,
                     written |-> ColumnsWritten(files, recon.rows, exists),
                     again |-> /\ recon.again
                               /\ recon.at = Len(applied)
                               /\ recon.exists = exists]
    /\ UNCHANGED <<qvars, history, result, burst, outqBurst, applied, tx, running, fs>>
    /\ UNCHANGED xvars

----------------------------------------------------------------------------
(* The handlers step by step: the mutation is committed on one connection,   *)
(* then _log_history writes the record on another                            *)

\* the result after a handler that committed its mutation has returned True
CountedTrue(res, event_type) ==
    CASE event_type = "created" -> [res EXCEPT !.created = @ + 1]
      [] event_type = "deleted" -> [res EXCEPT !.deleted = @ + 1]
      [] event_type = "moved" -> [res EXCEPT !.moved = @ + 1]
      [] event_type = "modified" -> [res EXCEPT !.updated = @ + 1]
      [] OTHER -> res

\* a handler up to its conn.commit() (or its return, when it commits nothing)
ApplyCommit ==
    /\ running
    /\ outq # <<>>
    /\ tx.owed = NoRecord
    /\ \E at \in CanHold(files, Head(outq)) : \E k \in Fetchable(files, at, Head(outq)) :
        LET out == Dispatch(files, history, at, Head(outq), k) IN
        /\ files' = out.files
        /\ applied' = Append(applied, Handled(Head(outq), at))
        /\ IF out.history # history
           THEN /\ tx' = [owed |-> out.history[Len(out.history)],
                          mutations |-> tx.mutations + 1]
                /\ UNCHANGED result
           ELSE /\ result' = Counted(result, Head(outq), out)
                /\ UNCHANGED tx
    /\ outq' = Tail(outq)
    /\ outqBurst' = Tail(outqBurst)
    /\ UNCHANGED <<pending, lock, flushPos, timerArmed, timerDeadline, timersWaiting, fnPc,
                   now, puts, lastIn, sawDeleted, flushOut, drainSnap, owed, outstanding>>
    /\ UNCHANGED <<history, burst, recon, running, fs>>
    /\ UNCHANGED xvars

\* _log_history: the INSERT and its commit; the handler returns True
LogWrite ==
    /\ tx.owed # NoRecord
    /\ history' = Append(history, tx.owed)
    /\ result' = CountedTrue(result, applied[Len(applied)].event_type)
    /\ tx' = [tx EXCEPT !.owed = NoRecord]
    /\ UNCHANGED <<qvars, files, burst, outqBurst, applied, recon, running, fs>>
    /\ UNCHANGED xvars

\* _log_history: the INSERT raises sqlite3.OperationalError (no table file_history,
\* database is locked), which is logged and swallowed; the handler returns True
LogFail ==
    /\ tx.owed # NoRecord
    /\ result' = CountedTrue(result, applied[Len(applied)].event_type)
    /\ tx' = [tx EXCEPT !.owed = NoRecord]
    /\ UNCHANGED <<qvars, files, history, burst, outqBurst, applied, recon, running, fs>>
    /\ UNCHANGED xvars

----------------------------------------------------------------------------
(* The archive changes and the observer reports each change *)

\* NASEventHandler.on_*: put(event) for a change of the archive
Report(event) ==
    /\ running
    /\ puts < MaxEvents
    /\ pending' = PutPending(pending, event)
    /\ burst' = [burst EXCEPT ![event.src_path] = Append(@, event.event_type)]
    /\ puts' = puts + 1
    /\ UNCHANGED <<outq, lock, flushPos, timerArmed, timerDeadline, timersWaiting, fnPc, now,
                   lastIn, sawDeleted, flushOut, drainSnap, owed, outstanding>>
    /\ UNCHANGED <<files, history, result, outqBurst, applied, recon, tx, running>>
    /\ UNCHANGED xvars

\* a video file appears at a free path; on_created
FsCreate ==
    \E p \in Watched : \E c \in Contents : \E ts \in TimestampsFor(pending, p) :
        /\ fs[p] = NoFile
        /\ fs' = [fs EXCEPT ![p] = c]
        /\ Report(TrackerEvent("created", p, NoPath, ts))

\* a video file is overwritten with other content; on_modified
FsModify ==
    \E p \in Watched : \E c \in Contents : \E ts \in TimestampsFor(pending, p) :
        /\ fs[p] \in Contents \ {c}
        /\ fs' = [fs EXCEPT ![p] = c]
        /\ Report(TrackerEvent("modified", p, NoPath, ts))

\* a video file is removed; on_deleted
FsDelete ==
    \E p \in Watched : \E ts \in TimestampsFor(pending, p) :
        /\ fs[p] \in Contents
        /\ fs' = [fs EXCEPT ![p] = NoFile]
        /\ Report(TrackerEvent("deleted", p, NoPath, ts))

\* a video file is renamed to a free path; on_moved
FsMove ==
    \E p \in Watched : \E q \in Watched \ {p} : \E ts \in TimestampsFor(pending, p) :
        /\ fs[p] \in Contents
        /\ fs[q] = NoFile
        /\ fs' = [fs EXCEPT ![p] = NoFile, ![q] = fs[p]]
        /\ Report(TrackerEvent("moved", p, q, ts))

\* what the handler of `event` finds when it opens its path in the archive
Held(rows, event) ==
    IF OpenedPath(rows, event) = NoPath THEN NoFile ELSE fs[OpenedPath(rows, event)]

\* process_events, one round of its loop, reading the archive as it is
ApplyArchive ==
    /\ running
    /\ outq # <<>>
    /\ \E k \in Fetchable(files, Held(files, Head(outq)), Head(outq)) :
        LET out == Dispatch(files, history, Held(files, Head(outq)), Head(outq), k) IN
        /\ files' = out.files
        /\ history' = out.history
        /\ result' = Counted(result, Head(outq), out)
        /\ applied' = Append(applied, Handled(Head(outq), Held(files, Head(outq))))
    /\ outq' = Tail(outq)
    /\ outqBurst' = Tail(outqBurst)
    /\ UNCHANGED <<pending, lock, flushPos, timerArmed, timerDeadline, timersWaiting, fnPc,
                   now, puts, lastIn, sawDeleted, flushOut, drainSnap, owed, outstanding>>
    /\ UNCHANGED <<burst, cvars>>
    /\ UNCHANGED xvars

----------------------------------------------------------------------------
(* Shutdown of the daemon *)

\* run_daemon: KeyboardInterrupt leaves the loop; finally: self.stop() sets _running
\* to False and stops and joins the observer
Interrupt ==
    /\ running
    /\ running' = FALSE
    /\ UNCHANGED <<qvars, files, history, result, burst, outqBurst, applied, recon, tx, fs>>
    /\ UNCHANGED xvars

Init == QInit /\ TIdle /\ XIdle

Next ==
    \/ Observe
    \/ Flush
    \/ Apply

Spec == Init /\ [][Next]_vars

(* The pipeline with the handlers step by step *)

NextTx ==
    \/ Observe
    \/ Flush
    \/ ApplyCommit
    \/ LogWrite
    \/ LogFail

SpecTx == Init /\ [][NextTx]_vars

(* The pipeline fed by the changes of the archive *)

NextArchive ==
    \/ FsCreate
    \/ FsModify
    \/ FsDelete
    \/ FsMove
    \/ Flush
    \/ ApplyArchive

SpecArchive == Init /\ [][NextArchive]_vars

(* The daemon until it is interrupted; the Timer thread of the queue lives on *)

NextDaemon ==
    \/ Observe
    \/ Flush
    \/ Apply
    \/ Interrupt

SpecDaemon == Init /\ [][NextDaemon]_vars

(* The pipeline with reconcile() run beside it *)

NextReconcile ==
    \/ Observe
    \/ Flush
    \/ Apply
    \/ ReconcileRead
    \/ ReconcileWrite

SpecReconcile == Init /\ [][NextReconcile]_vars

(* EventQueue alone, with its lock and its timers *)

InitQueue == QInit /\ TIdle /\ XIdle

NextQueue ==
    \/ Put
    \/ TimerExpire
    \/ FlushNowCancel
    \/ FlushAcquire
    \/ FlushCopy
    \/ FlushClear
    \/ Get
    \/ Tick

SpecQueue == InitQueue /\ [][NextQueue]_vars

FairSpecQueue ==
    /\ SpecQueue
    /\ WF_vars(TimerExpire)
    /\ WF_vars(FlushAcquire)
    /\ WF_vars(FlushCopy)
    /\ WF_vars(FlushClear)
    /\ WF_vars(Get)
    /\ WF_vars(Tick)

----------------------------------------------------------------------------
(* scripts/migrate_path_tracker.py: runs of migrate_database *)

MaxMigrations == 3

\* the values the one row of the database a run starts from can hold in a target
\* column its table has
ColumnValues(col_name) ==
    CASE col_name = "status" -> {"active", "deleted"}
      [] col_name = "content_hash" -> {NULL, "h1"}
      [] col_name = "deleted_at" -> {NULL, "t1"}
      [] OTHER -> {NULL}

\* an index needs its table, and an index on a target column needs the column
IndexPossible(idx, columns, tables) ==
    /\ idx.table \in tables
    /\ idx.table = "files" => idx.column \in columns

\* the values the row can hold in the given target columns
StartCols(columns) ==
    { cols \in [columns -> {NULL, "active", "deleted", "h1", "t1"}] :
        \A c \in columns : cols[c] \in ColumnValues(c) }

\* the databases with a files table that has the given target columns
StartDbsWith(columns, extra) ==
    { [exists |-> TRUE, tables |-> {"files"} \cup extra, columns |-> columns,
       indexes |-> indexes,
       rows |-> << [id |-> "file-001", nas_path |-> P1, filename |-> Basename(P1),
                    size_bytes |-> 10, cols |-> cols] >>,
       migrations |-> {}, backups |-> {}] :
        indexes \in SUBSET { idx.name : idx \in
                                { i \in Range(MigrationIndexes) :
                                    IndexPossible(i, columns, {"files"} \cup extra) } },
        cols \in StartCols(columns) }

\* the databases a run can start from: a files table with any subset of the target
\* columns, with or without file_history and _migrations, with any subset of the
\* indexes; besides, a file without a files table, and no file at all
StartDbs ==
    UNION { StartDbsWith(columns, extra) :
                columns \in SUBSET Range(NewColumns),
                extra \in SUBSET {"file_history", "_migrations"} }
        \cup {NoDb, [NoDb EXCEPT !.exists = TRUE]}

InitMigrate ==
    /\ QInit
    /\ TIdle
    /\ db \in StartDbs
    /\ mig = MigIdle
    /\ adapter = AdapterIdle
    /\ call = NoCall

\* one run of migrate_database(db_path, dry_run), in the second `at`
MigrateDatabase ==
    /\ mig.runs < MaxMigrations
    /\ \E dry_run \in BOOLEAN, at \in {mig.clock, mig.clock + 1} :
        /\ db' = MigratedDb(db, dry_run, at)
        /\ mig' = [runs |-> mig.runs + 1, clock |-> at, prev |-> mig.last,
                   last |-> [dry_run |-> dry_run, result |-> MigrationResult(db, dry_run),
                             before |-> db]]
    /\ UNCHANGED <<qvars, files, history, result, burst, outqBurst, applied, cvars,
                   adapter, call>>

NextMigrate == MigrateDatabase

SpecMigrate == InitMigrate /\ [][NextMigrate]_vars

----------------------------------------------------------------------------
(* utils/path.py: calls of generate_file_id *)

MaxPathLen == 3

\* the characters of the paths given to generate_file_id
PathChars == {"/", "\\", "A", "a"}

\* the paths of at most MaxPathLen characters, the empty string included
CallPaths == UNION { [1..n -> PathChars] : n \in 0..MaxPathLen }

\* a call that has not returned
NoValue == <<>>

\* two paths, and generate_file_id about to be called on each
InitFileId ==
    /\ QInit
    /\ TIdle
    /\ db = NoDb
    /\ mig = MigIdle
    /\ adapter = AdapterIdle
    /\ call \in { [fn |-> "generate_file_id", args |-> <<a, b>>, value |-> NoValue] :
                    a \in CallPaths, b \in CallPaths }

\* generate_file_id(a) and generate_file_id(b) return
CallGenerateFileId ==
    /\ call.fn = "generate_file_id"
    /\ call.value = NoValue
    /\ call' = [call EXCEPT !.value = << GenerateFileId(call.args[1]),
                                         GenerateFileId(call.args[2]) >>]
    /\ UNCHANGED <<qvars, files, history, result, burst, outqBurst, applied, cvars,
                   db, mig, adapter>>

NextFileId == CallGenerateFileId

SpecFileId == InitFileId /\ [][NextFileId]_vars

----------------------------------------------------------------------------
(* sheets_adapter.py: calls of the public operations of SheetsSyncAdapter *)

MaxSyncs == 3

\* the values given for `tables`
TablesArgs == {NoTables, <<"files">>}

\* an adapter with any of the two services, as create_sheets_adapter or a caller
\* builds it
InitSheets ==
    /\ QInit
    /\ TIdle
    /\ db = NoDb
    /\ mig = MigIdle
    /\ adapter \in { NewAdapter(sheets_service, hands_sync) :
                        sheets_service \in BOOLEAN, hands_sync \in BOOLEAN }
    /\ call = NoCall

\* a public operation is entered: the history of the call starts empty
Begin(a, op) ==
    [a EXCEPT !.clock = @ + 1, !.calls = @ + 1, !.op = op,
              !.registered = [on_complete |-> a.on_complete, on_error |-> a.on_error],
              !.completes = <<>>, !.errs = <<>>, !.raised = <<>>]

\* the operation returns `done.result`
Return(done) == [done.adapter EXCEPT !.ret = done.result]

SheetsFrame ==
    UNCHANGED <<qvars, files, history, result, burst, outqBurst, applied, cvars,
                db, mig, call>>

\* set_on_complete
SetOnComplete ==
    /\ ~adapter.on_complete
    /\ adapter' = [adapter EXCEPT !.on_complete = TRUE]
    /\ SheetsFrame

\* set_on_error
SetOnError ==
    /\ ~adapter.on_error
    /\ adapter' = [adapter EXCEPT !.on_error = TRUE]
    /\ SheetsFrame

CallSyncToSheets ==
    /\ adapter.calls < MaxSyncs
    /\ \E tables \in TablesArgs, outcome \in ServiceOutcomes :
            adapter' = Return(SyncToSheets(Begin(adapter, "sync_to_sheets"),
                                           tables, outcome))
    /\ SheetsFrame

CallSyncFromSheets ==
    /\ adapter.calls < MaxSyncs
    /\ \E tables \in TablesArgs, outcome \in ServiceOutcomes :
            adapter' = Return(SyncFromSheets(Begin(adapter, "sync_from_sheets"),
                                             tables, outcome))
    /\ SheetsFrame

CallSyncHands ==
    /\ adapter.calls < MaxSyncs
    /\ \E outcome \in ServiceOutcomes :
            adapter' = Return(SyncHands(Begin(adapter, "sync_hands"), outcome))
    /\ SheetsFrame

CallSyncBidirectional ==
    /\ adapter.calls < MaxSyncs
    /\ \E tables \in TablesArgs, outcome1 \in ServiceOutcomes,
          outcome2 \in ServiceOutcomes :
            adapter' = Return(SyncBidirectional(Begin(adapter, "sync_bidirectional"),
                                                tables, outcome1, outcome2))
    /\ SheetsFrame

NextSheets ==
    \/ SetOnComplete
    \/ SetOnError
    \/ CallSyncToSheets
    \/ CallSyncFromSheets
    \/ CallSyncHands
    \/ CallSyncBidirectional

SpecSheets == InitSheets /\ [][NextSheets]_vars

----------------------------------------------------------------------------
(* catalog_extractor.py: calls of extract *)

MaxWords == 6

\* the words of the file names
FileWords == {"Main", "Event", "Day", "1", "Final", "Table"}

\* the directories of the archive the files are in
ArchiveDirs ==
    { <<"/", "WSOP", "/", "WSOP", " ", "ARCHIVE", "/", "2024">>,
      <<"/", "WSOP", "/", "WSOP", " ", "Circuit", " ", "Event", "/", "2031">>,
      <<"/", "PAD", "/", "2024">>,
      <<"/", "PAD">> }

\* the file name made of the words, a blank between two, with its extension
FileNameOf(words) ==
    [i \in 1..(2 * Len(words) - 1) |->
        IF i % 2 = 1 THEN words[(i + 1) \div 2] ELSE " "] \o <<".mp4">>

\* the file names of 1 to MaxWords words, no word twice
FileNames ==
    { FileNameOf(words) :
        words \in UNION { { w \in [1..n -> FileWords] :
                              \A i, j \in 1..n : i # j => w[i] # w[j] } :
                          n \in 1..MaxWords } }

\* extract is about to be called with the full path of a file and its name
InitExtract ==
    /\ QInit
    /\ TIdle
    /\ db = NoDb
    /\ mig = MigIdle
    /\ adapter = AdapterIdle
    /\ call \in { [fn |-> "extract", args |-> <<dir \o <<"/">> \o filename, filename>>,
                    done |-> FALSE, value |-> [brand |-> NoName]] :
                    dir \in ArchiveDirs, filename \in FileNames }

\* extract(path, filename) returns
CallExtract ==
    /\ call.fn = "extract"
    /\ ~call.done
    /\ call' = [call EXCEPT !.done = TRUE,
                            !.value = Extract(call.args[1], call.args[2])]
    /\ UNCHANGED <<qvars, files, history, result, burst, outqBurst, applied, cvars,
                   db, mig, adapter>>

NextExtract == CallExtract

SpecExtract == InitExtract /\ [][NextExtract]_vars

----------------------------------------------------------------------------
(* Properties of EventQueue, checked under SpecQueue / FairSpecQueue *)

\* a _flush has finished its loop and is about to clear: flushOut is its whole output
DrainDone == lock # "free" /\ flushPos >= Len(pending)

\* the positions of the events for path p in a sequence of events
EventsFor(seq, p) == { i \in 1..Len(seq) : seq[i].src_path = p }

\* C1: delete dominance. If a 'deleted' was put for path p since the last flush,
\* the flush outputs exactly one event for p and it is 'deleted', whatever was
\* put for p before or after it.
DeleteDominance ==
    DrainDone =>
        \A p \in Paths :
            sawDeleted[p] =>
                /\ Cardinality(EventsFor(flushOut, p)) = 1
                /\ \A i \in EventsFor(flushOut, p) : flushOut[i].event_type = "deleted"

\* a flush whose window held created, deleted and a later non-deleted event on P1
DeleteDominanceWitness ==
    /\ DrainDone
    /\ sawDeleted[P1]
    /\ lastIn[P1].event_type = "modified"
    /\ puts = 3
    /\ Len(flushOut) = 1

\* C2 (as claimed): with no 'deleted' put for p since the last flush, the flush
\* outputs exactly one event for p, with the event_type and dst_path of the last
\* event put for p, for timestamps that never decrease (equal ones included).
CoalescingConvergence ==
    DrainDone =>
        \A p \in Paths :
            (lastIn[p] # NoEvent /\ ~sawDeleted[p]) =>
                /\ Cardinality(EventsFor(flushOut, p)) = 1
                /\ \A i \in EventsFor(flushOut, p) :
                    /\ flushOut[i].event_type = lastIn[p].event_type
                    /\ flushOut[i].dst_path = lastIn[p].dst_path

\* C4: pending_count is the number of distinct paths put since the last flush:
\* one entry per path, and one path per entry.
PendingCountDistinct ==
    /\ Len(pending) = Cardinality({ p \in Paths : lastIn[p] # NoEvent })
    /\ \A p \in Paths : lastIn[p] # NoEvent <=> EventsFor(pending, p) # {}

\* three puts, two of them on the same path
PendingCountWitness ==
    /\ puts = 3
    /\ Len(pending) = 2
    /\ lock = "free"

\* C5: a flush is atomic with respect to put() and delivers every entry once.
\* While a _flush runs, pending is what it was when the lock was taken and the
\* output so far is its prefix; every entry a flush found pending is, until
\* get() returns it, exactly once on the output queue or still to be copied by
\* that flush; and no entry put() created is anywhere else.
FlushExactlyOnce ==
    /\ lock # "free" =>
        /\ pending = drainSnap
        /\ flushPos <= Len(drainSnap)
        /\ flushOut = SubSeq(drainSnap, 1, flushPos)
    /\ owed = outq \o (IF lock # "free"
                       THEN SubSeq(drainSnap, flushPos + 1, Len(drainSnap))
                       ELSE <<>>)
    /\ outstanding = Len(outq) + Len(pending) - flushPos

\* a timer flush in the middle of its loop while flush_now waits for the lock and
\* get() has already taken an event
FlushExactlyOnceWitness ==
    /\ lock = "timer"
    /\ fnPc = "flush"
    /\ Len(pending) = 2
    /\ flushPos = 1
    /\ puts = 3
    /\ outstanding = Len(outq) + 1

\* C6 (as claimed): every put() call, also one whose event is dropped, leaves the
\* timer armed to fire one debounce interval after that call.
EveryPutRearmsTimer ==
    [][puts' = puts + 1 => (timerArmed' /\ timerDeadline' = now' + DebounceTicks)]_vars

\* C7: when put() calls have stopped, the timer alone flushes what is pending and
\* get() returns it: pending never stays non-empty, and in the end nothing is
\* left pending, queued or undelivered.
PendingEventuallyDelivered ==
    /\ (pending # <<>>) ~> (pending = <<>>)
    /\ <>[](pending = <<>> /\ outq = <<>> /\ outstanding = 0)

\* the last put is pending, flush_now is not running, and a Timer thread drains it
PendingEventuallyDeliveredWitness ==
    /\ puts = MaxPuts
    /\ lock = "timer"
    /\ fnPc = "idle"
    /\ DrainDone
    /\ Len(pending) > 0

----------------------------------------------------------------------------
(* Properties of the pipeline, checked under Spec *)

\* the step is one round of process_events: an event leaves outq and is handled
ApplyStep == outq # <<>> /\ Len(applied') = Len(applied) + 1

\* the positions of the rows with nas_path = path
RowsAtPath(rows, path) == { i \in 1..Len(rows) : rows[i].nas_path = path }

\* the event types of the history records, in order
HistoryTypes(hist) == [i \in 1..Len(hist) |-> hist[i].event_type]

\* C3 (as claimed): a burst on path p that starts with 'created' and holds only
\* 'created' and 'modified', for a readable file that has no catalog row, leaves,
\* once its coalesced event is handled, an active row at p and one more history
\* record, 'created' with new_path p.
NewFileBurstCataloged ==
    [][(/\ ApplyStep
        /\ Head(outqBurst) # <<>>
        /\ Head(outqBurst)[1] = "created"
        /\ \A i \in 1..Len(Head(outqBurst)) : Head(outqBurst)[i] \in {"created", "modified"}
        /\ applied'[Len(applied')].held \in Contents
        /\ RowsAtPath(files, Head(outq).src_path) = {}
        /\ \A i \in 1..Len(files) :
            /\ files[i].id # GenerateFileId(Head(outq).src_path)
            /\ ~(/\ files[i].content_hash = applied'[Len(applied')].held.content_hash
                 /\ files[i].size_bytes = applied'[Len(applied')].held.size))
       => (/\ \E i \in RowsAtPath(files', Head(outq).src_path) : files'[i].status = "active"
           /\ Len(history') = Len(history) + 1
           /\ history'[Len(history')].event_type = "created"
           /\ history'[Len(history')].new_path = Head(outq).src_path)]_vars

\* C8: identity stability. No step changes the id of a row or removes a row. A
\* 'moved' event whose source path has a row, and a 'created' event whose
\* identity matches an active row, when the handler does not raise, leave that
\* row at the new path with the id it had, and insert no row; a handler that
\* raises leaves the catalog as it was.
IdentityStability ==
    [][/\ Len(files') >= Len(files)
       /\ \A i \in 1..Len(files) : files'[i].id = files[i].id
       /\ (ApplyStep /\ result'.errors # result.errors) =>
            (files' = files /\ history' = history)
       /\ (/\ ApplyStep
           /\ result'.errors = result.errors
           /\ Head(outq).event_type = "moved"
           /\ RowAtPath(files, Head(outq).src_path) # 0)
          => (/\ Len(files') = Len(files)
              /\ RowsAtPath(files', Head(outq).dst_path)
                    = {RowAtPath(files, Head(outq).src_path)})
       /\ (/\ ApplyStep
           /\ result'.errors = result.errors
           /\ Head(outq).event_type = "created"
           /\ applied'[Len(applied')].held \in Contents
           /\ FindByHashAndSize(files, applied'[Len(applied')].held.content_hash,
                                applied'[Len(applied')].held.size) # {})
          => (/\ Len(files') = Len(files)
              /\ RowsAtPath(files', Head(outq).src_path) # {}
              /\ RowsAtPath(files', Head(outq).src_path)
                    \subseteq FindByHashAndSize(files,
                                  applied'[Len(applied')].held.content_hash,
                                  applied'[Len(applied')].held.size))
      ]_vars

\* a file cataloged at P1 was moved to P2 by a 'moved' event and kept its id
IdentityStabilityWitness ==
    /\ Len(applied) = 2
    /\ applied[2].event_type = "moved"
    /\ applied[2].src_path = P1
    /\ applied[2].dst_path = P2
    /\ Len(files) = 1
    /\ files[1].nas_path = P2
    /\ files[1].id = GenerateFileId(P1)
    /\ HistoryTypes(history) = <<"created", "moved">>

\* scenario S1 has run with the 'created' at p2 handled before the 'deleted' at p1
S1CreatedFirst(p1, p2, c) ==
    applied = << [event_type |-> "created", src_path |-> p1, dst_path |-> NoPath, held |-> c],
                 [event_type |-> "created", src_path |-> p2, dst_path |-> NoPath, held |-> c],
                 [event_type |-> "deleted", src_path |-> p1, dst_path |-> NoPath,
                  held |-> NoFile] >>

\* scenario S1 has run with the 'deleted' at p1 handled before the 'created' at p2
S1DeletedFirst(p1, p2, c) ==
    applied = << [event_type |-> "created", src_path |-> p1, dst_path |-> NoPath, held |-> c],
                 [event_type |-> "deleted", src_path |-> p1, dst_path |-> NoPath,
                  held |-> NoFile],
                 [event_type |-> "created", src_path |-> p2, dst_path |-> NoPath, held |-> c] >>

\* what scenario S1 expects: one row, the id of p1, at p2, active; history created, moved
S1Expected(p1, p2) ==
    /\ Len(files) = 1
    /\ files[1].id = GenerateFileId(p1)
    /\ files[1].nas_path = p2
    /\ files[1].status = "active"
    /\ HistoryTypes(history) = <<"created", "moved">>

DeletedMatches(rows, content_hash, size) ==
    { i \in 1..Len(rows) :
        /\ rows[i].content_hash = content_hash
        /\ rows[i].size_bytes = size
        /\ rows[i].status = "deleted" }

\* C10 (as claimed): a 'created' event whose identity matches a deleted row (and
\* no active row) inserts no row: one such row keeps its id, becomes active with
\* deleted_at null and the event's path and filename, and the history record
\* appended for it is 'reanimated'.
Reanimation ==
    [][(/\ ApplyStep
        /\ Head(outq).event_type = "created"
        /\ applied'[Len(applied')].held \in Contents
        /\ DeletedMatches(files, applied'[Len(applied')].held.content_hash,
                          applied'[Len(applied')].held.size) # {}
        /\ FindByHashAndSize(files, applied'[Len(applied')].held.content_hash,
                             applied'[Len(applied')].held.size) = {})
       => (/\ Len(files') = Len(files)
           /\ \E i \in DeletedMatches(files, applied'[Len(applied')].held.content_hash,
                                      applied'[Len(applied')].held.size) :
                /\ files'[i].id = files[i].id
                /\ files'[i].status = "active"
                /\ files'[i].deleted_at = NULL
                /\ files'[i].nas_path = Head(outq).src_path
                /\ files'[i].filename = Basename(Head(outq).src_path)
                /\ Len(history') = Len(history) + 1
                /\ history'[Len(history')].event_type = "reanimated"
                /\ history'[Len(history')].file_id = files[i].id)]_vars

----------------------------------------------------------------------------
(* Properties of the catalog, checked under SpecReconcile *)

\* the step is the loop and commit of a reconcile() run
ReconcileStep == recon.pc = "fetched" /\ recon'.pc = "idle"

\* the positions of the rows with status = status
RowsWithStatus(rows, status) == { i \in 1..Len(rows) : rows[i].status = status }

\* C11: soft-delete consistency. In every reachable catalog state a row with status
\* 'deleted' has a deleted_at and a row with status 'active' has none; and no step
\* (event handler or reconcile) takes the deleted_at of a deleted row away.
SoftDeleteConsistency ==
    /\ [](\A i \in 1..Len(files) :
            /\ files[i].status = "deleted" => files[i].deleted_at # NULL
            /\ files[i].status = "active" => files[i].deleted_at = NULL)
    /\ [][\A i \in RowsWithStatus(files, "deleted") :
            files'[i].status = "deleted" /\ files'[i].deleted_at # NULL]_vars

\* a row soft-deleted by _handle_deleted and a row soft-deleted by reconcile
SoftDeleteConsistencyWitness ==
    /\ Len(files) = 2
    /\ RowsWithStatus(files, "deleted") = {1, 2}
    /\ result.deleted = 1
    /\ recon.runs = 1
    /\ recon.deleted = 1

\* C12: path uniqueness. In every catalog state reached by applied events and
\* reconcile runs, no two rows with status 'active' have the same path.
PathUniqueness ==
    \A i \in RowsWithStatus(files, "active") : \A j \in RowsWithStatus(files, "active") :
        files[i].nas_path = files[j].nas_path => i = j

\* two active rows, after a 'moved' event onto the path of one of them was handled
PathUniquenessWitness ==
    /\ Len(applied) = 3
    /\ applied[3].event_type = "moved"
    /\ RowsWithStatus(files, "active") = {1, 2}
    /\ RowsAtPath(files, applied[3].src_path) # {}
    /\ RowsAtPath(files, applied[3].dst_path) # {}
    /\ Len(result.errors) = 1

\* C13 (as claimed): identity uniqueness. In every catalog state reached by applied
\* events, no two rows with status 'active' have the same (size_bytes, content_hash).
IdentityUniqueness ==
    \A i \in RowsWithStatus(files, "active") : \A j \in RowsWithStatus(files, "active") :
        (/\ files[i].size_bytes = files[j].size_bytes
         /\ files[i].content_hash = files[j].content_hash) => i = j

\* the positions of the rows of rows2 that are new or differ from the row of rows1
Mutated(rows1, rows2) ==
    { i \in 1..Len(rows2) : i > Len(rows1) \/ rows2[i] # rows1[i] }

----------------------------------------------------------------------------
(* Properties of the handlers' transactions, checked under SpecTx *)

\* C15 (as claimed): mutation/history atomicity. In every reachable state each
\* catalog mutation a handler has committed has its history record and each
\* history record has its mutation: as many records as committed mutations.
MutationHistoryAtomic == tx.mutations = Len(history)

----------------------------------------------------------------------------
(* Properties of process_events, checked under Spec *)

\* how many of the handled events are the event `event`
Attempts(done, event) ==
    Cardinality({ i \in 1..Len(done) :
        /\ done[i].event_type = event.event_type
        /\ done[i].src_path = event.src_path
        /\ done[i].dst_path = event.dst_path })

\* C16 (as claimed): bounded retry. An event is added to the result's error list
\* only when its handler has failed on the third attempt: at the step that records
\* the error the event has been handled 3 times.
ErrorOnlyAfterRetries ==
    [][(ApplyStep /\ result'.errors # result.errors)
        => Attempts(applied', Head(outq)) >= 3]_vars

----------------------------------------------------------------------------
(* Properties of reconcile, checked under SpecReconcile *)

\* C17: reconciler idempotence. A reconcile run that follows another, with the same
\* paths existing and with no event handled from the moment the first run fetched
\* its rows, marks no row deleted (result.deleted = 0), leaves every row as it was
\* and writes no history.
ReconcileIdempotent ==
    [][(ReconcileStep /\ recon'.again)
        => (/\ recon'.deleted = 0
            /\ files' = files
            /\ history' = history)]_vars

\* a second run has followed a run that soft-deleted a row and left another active
ReconcileIdempotentWitness ==
    /\ recon.runs = 2
    /\ recon.again
    /\ result.deleted = 0
    /\ \E i \in RowsWithStatus(files, "deleted") : files[i].nas_path \notin recon.exists
    /\ \E i \in RowsWithStatus(files, "active") : files[i].nas_path \in recon.exists

\* C18 (as claimed): the reconciler does not write catalog rows itself; every row
\* that a reconcile run turns to status 'deleted' gets a 'deleted' record in
\* file_history (written by the handler of the synthesized event).
ReconcileDeletesThroughApplier ==
    [][ReconcileStep =>
        \A i \in RowsWithStatus(files, "active") :
            files'[i].status = "deleted" =>
                \E h \in (Len(history) + 1)..Len(history') :
                    /\ history'[h].event_type = "deleted"
                    /\ history'[h].file_id = files[i].id]_vars

----------------------------------------------------------------------------
(* Properties of shutdown, checked under SpecDaemon *)

\* C19 (as claimed): shutdown drains. When the shutdown of the daemon is over (the
\* observer is stopped and run_daemon returns), no event that put() accepted is
\* left in the pending map or on the output queue.
ShutdownDrains == ~running => (pending = <<>> /\ outq = <<>>)

----------------------------------------------------------------------------
(* Properties of the pipeline fed by the archive, checked under SpecArchive *)

\* the paths of the rows with status 'active'
ActivePaths(rows) == { rows[i].nas_path : i \in RowsWithStatus(rows, "active") }

\* the paths of the archive that hold a video file
Present(archive) == { p \in Paths : archive[p] \in Contents }

\* C20 (as claimed): eventual convergence. Whenever every change of the archive
\* has been reported, flushed and handled (nothing pending, nothing on the output
\* queue), the paths of the active rows are the paths of the files present.
EventualConvergence ==
    (pending = <<>> /\ outq = <<>>) => ActivePaths(files) = Present(fs)

----------------------------------------------------------------------------
(* Properties of process_events and the handlers, checked under Spec *)

\* the counters of a TrackerResult
Counters(res) == <<res.created, res.updated, res.moved, res.deleted>>

\* the handler of the event at the head of outq has run on the tables
Dispatched ==
    \E at \in CanHold(files, Head(outq)) : \E k \in Fetchable(files, at, Head(outq)) :
        /\ files' = Dispatch(files, history, at, Head(outq), k).files
        /\ history' = Dispatch(files, history, at, Head(outq), k).history

\* C21: errors never abort the applier. A handler that raises adds exactly one entry
\* to result.errors and changes no counter; whatever errors were recorded before,
\* the loop goes on: while events are on the queue the next one can be taken, and
\* each event taken is dispatched to its handler.
ErrorsNeverAbort ==
    /\ []((running /\ outq # <<>>) => ENABLED Apply)
    /\ [][ApplyStep =>
            /\ Dispatched
            /\ Len(result'.errors) <= Len(result.errors) + 1
            /\ result'.errors # result.errors =>
                /\ result'.errors = Append(result.errors, Head(outq).src_path)
                /\ Counters(result') = Counters(result)]_vars

\* an event was handled and counted after the handler of an earlier one had raised
ErrorsNeverAbortWitness ==
    /\ Len(applied) = 3
    /\ Len(result.errors) = 1
    /\ result.errors[1] = applied[2].src_path
    /\ result.created = 2
    /\ Len(files) = 2

\* the file the handler of the step's event read
HeldNow == applied'[Len(applied')].held

\* C29 (as claimed): the 'created' handler. For a readable file at P with identity
\* (h, s): if an active row has that identity, one such row gets path P and the
\* filename of P, a 'moved' record (old_path the row's path, new_path P) is
\* appended and no row is inserted; otherwise one row is inserted with the id
\* derived from P, path P, size s, hash h, status 'active', and a 'created' record
\* is appended. Every other row is unchanged.
CreatedHandler ==
    [][(ApplyStep /\ Head(outq).event_type = "created" /\ HeldNow \in Contents) =>
        LET P == Head(outq).src_path
            matches == FindByHashAndSize(files, HeldNow.content_hash, HeldNow.size)
        IN  IF matches # {}
            THEN \E k \in matches :
                    /\ files' = [files EXCEPT ![k].nas_path = P,
                                              ![k].filename = Basename(P)]
                    /\ history' = Append(history,
                          [file_id |-> files[k].id, event_type |-> "moved",
                           old_path |-> files[k].nas_path, new_path |-> P,
                           old_hash |-> NULL, new_hash |-> NULL])
            ELSE /\ files' = Append(files,
                          [id |-> GenerateFileId(P), nas_path |-> P,
                           filename |-> Basename(P), size_bytes |-> HeldNow.size,
                           content_hash |-> HeldNow.content_hash,
                           status |-> "active", deleted_at |-> NULL])
                 /\ history' = Append(history,
                          [file_id |-> GenerateFileId(P), event_type |-> "created",
                           old_path |-> NoPath, new_path |-> P,
                           old_hash |-> NULL, new_hash |-> NULL])]_vars

----------------------------------------------------------------------------
(* Properties of the schema migration, checked under SpecMigrate *)

\* the run changes the database: not a dry run, and the file holds a files table
Migrating(run) ==
    ~run.dry_run /\ run.before.exists /\ TableExists(run.before, "files")

Schema(d) == [tables |-> d.tables, columns |-> d.columns, indexes |-> d.indexes]

\* all the target columns, file_history and the five indexes are there
FullyMigrated(d) ==
    /\ d.columns = Range(NewColumns)
    /\ TableExists(d, "file_history")
    /\ d.indexes = { idx.name : idx \in Range(MigrationIndexes) }

DryRunChangesNothing ==
    (mig.runs >= 1 /\ mig.last.dry_run) => db = mig.last.before

\* C24: a run of migrate_database deletes no row of files and changes no value of a
\* column the table had; in each column it adds, every row that was there holds the
\* default: status 'active', content_hash and deleted_at null
MigrationPreservesData ==
    mig.runs >= 1 =>
        LET before == mig.last.before
        IN  /\ DOMAIN db.rows = DOMAIN before.rows
            /\ \A i \in DOMAIN before.rows :
                    /\ db.rows[i].id = before.rows[i].id
                    /\ db.rows[i].nas_path = before.rows[i].nas_path
                    /\ db.rows[i].filename = before.rows[i].filename
                    /\ db.rows[i].size_bytes = before.rows[i].size_bytes
                    /\ \A c \in before.columns :
                            db.rows[i].cols[c] = before.rows[i].cols[c]
                    /\ Migrating(mig.last) =>
                            \A c \in Range(NewColumns) \ before.columns :
                                /\ db.rows[i].cols[c] = ColumnDefault(c)
                                /\ c = "status" => db.rows[i].cols[c] = "active"
                                /\ c \in {"content_hash", "deleted_at"} =>
                                        db.rows[i].cols[c] = NULL

\* a legacy table with none of the target columns and one row has been migrated
MigrationPreservesDataWitness ==
    /\ mig.runs >= 1
    /\ Migrating(mig.last)
    /\ mig.last.before.columns = {}
    /\ Len(mig.last.before.rows) = 1
    /\ db.rows[1].cols["status"] = "active"
    /\ db.rows[1].cols["content_hash"] = NULL
    /\ db.rows[1].nas_path = P1

----------------------------------------------------------------------------
(* Properties of generate_file_id, checked under SpecFileId *)

\* the identity key: backslashes turned into slashes, lowercased, a leading '//'
\* stripped
IdentityKey(path) == NormalizeNasPath(path, TRUE)

\* C25: the id generate_file_id gives a path is the truncated hash of the path's
\* identity key, so two paths with the same identity key (paths that differ only in
\* letter case, in separator style or in the presence of the leading '//') get the
\* same id
FileIdOfIdentityKey ==
    (call.fn = "generate_file_id" /\ call.value # NoValue) =>
        /\ call.value[1] = Md5Hex16(IdentityKey(call.args[1]))
        /\ IdentityKey(call.args[1]) = IdentityKey(call.args[2]) =>
                call.value[1] = call.value[2]

----------------------------------------------------------------------------
(* Properties of SheetsSyncAdapter, checked under SpecSheets *)

\* get_status().error_message
ErrorMessage == adapter.error_message

\* the last operation had no service to work with
NotConfigured ==
    \/ adapter.op \in {"sync_to_sheets", "sync_from_sheets", "sync_bidirectional"}
            /\ ~adapter.sheets_service
    \/ adapter.op = "sync_hands" /\ ~adapter.hands_sync

\* C26: before any sync operation get_status().error_message is None; after any
\* sequence of them it is None if the last one succeeded, and the error text of the
\* last one if it failed: 'Service not configured' when its service is missing,
\* else the text of the (first) exception its service raised
ErrorTracking ==
    /\ adapter.calls = 0 => ErrorMessage = NULL
    /\ adapter.calls > 0 =>
            /\ adapter.ret.success => ErrorMessage = NULL
            /\ ~adapter.ret.success =>
                    /\ adapter.ret.errors # <<>>
                    /\ ErrorMessage = adapter.ret.errors[1]
                    /\ ErrorMessage # NULL
                    /\ NotConfigured => ErrorMessage = "Service not configured"
                    /\ ~NotConfigured =>
                            /\ adapter.raised # <<>>
                            /\ ErrorMessage = adapter.raised[1]

\* the last of MaxSyncs operations is a sync_bidirectional whose sync_from_sheets
\* succeeded and whose sync_to_sheets raised
ErrorTrackingWitness ==
    /\ adapter.calls = MaxSyncs
    /\ adapter.op = "sync_bidirectional"
    /\ ~adapter.ret.success
    /\ adapter.raised = <<"Connection failed">>
    /\ adapter.ret.errors = <<"Connection failed">>
    /\ adapter.last_direction = "bidirectional"
    /\ ErrorMessage = "Connection failed"

\* C27: a call of a public sync operation that succeeds invokes the registered
\* on_complete exactly once, with its successful result, and does not invoke
\* on_error; a call that fails with an exception from its service invokes the
\* registered on_error exactly once
CallbackProtocol ==
    adapter.calls > 0 =>
        /\ (adapter.ret.success /\ adapter.registered.on_complete) =>
                /\ adapter.completes = <<adapter.ret>>
                /\ adapter.errs = <<>>
        /\ (~adapter.ret.success /\ adapter.raised # <<>>
                /\ adapter.registered.on_error) =>
                Len(adapter.errs) = 1

----------------------------------------------------------------------------
(* Properties of extract, checked under SpecExtract *)

\* scenario S5: .../WSOP/WSOP ARCHIVE/2024/Main Event Day 1 Final Table.mp4
S5Filename == FileNameOf(<<"Main", "Event", "Day", "1", "Final", "Table">>)

S5Path == <<"/", "WSOP", "/", "WSOP", " ", "ARCHIVE", "/", "2024", "/">> \o S5Filename

\* C28: for the path of scenario S5, extract returns brand 'WSOP', year 2024,
\* event_type 'Final Table', day 'Day 1', series 'Archive', the generated title
\* 'WSOP 2024 Final Table Day 1', and tags that include 'WSOP', '2024' and
\* 'Final Table'
S5Extraction ==
    (call.fn = "extract" /\ call.done /\ call.args = <<S5Path, S5Filename>>) =>
        /\ call.value.brand = <<"WSOP">>
        /\ call.value.year = 2024
        /\ call.value.event_type = <<"Final", "Table">>
        /\ call.value.day = <<"Day", "1">>
        /\ call.value.series = <<"Archive">>
        /\ call.value.generated_title = <<"WSOP", "2024", "Final", "Table", "Day", "1">>
        /\ { <<"WSOP">>, <<"2024">>, <<"Final", "Table">> }
                \subseteq Range(call.value.tags)

----------------------------------------------------------------------------
(* Properties of the 'moved' and 'modified' handlers, checked under Spec *)

\* the rows of status 'active' whose path is `path`
ActiveAt(rows, path) ==
    { i \in RowsWithStatus(rows, "active") : rows[i].nas_path = path }

\* C31 (as claimed): the 'moved' handler. The row to move is looked up among the
\* active rows by src_path; if one is found, its path and filename are rewritten to
\* dst_path, its id, status, hash and size are unchanged and one 'moved' record is
\* appended; if no active row has src_path (also when only a soft-deleted row has
\* it), the event is handled exactly as a 'created' event on dst_path and no
\* soft-deleted row is modified.
MovedHandler ==
    [][(ApplyStep /\ Head(outq).event_type = "moved" /\ Head(outq).dst_path # NoPath) =>
        LET src == Head(outq).src_path
            dst == Head(outq).dst_path
        IN  IF ActiveAt(files, src) # {}
            THEN \E i \in ActiveAt(files, src) :
                    /\ files' = [files EXCEPT ![i].nas_path = dst,
                                              ![i].filename = Basename(dst)]
                    /\ history' = Append(history,
                          [file_id |-> files[i].id, event_type |-> "moved",
                           old_path |-> src, new_path |-> dst,
                           old_hash |-> NULL, new_hash |-> NULL])
            ELSE /\ \E at \in FsValues :
                    \E k \in Fetchable(files, at, TrackerEvent("created", dst, NoPath, 0)) :
                        /\ files' = HandleCreated(files, history, at, dst, k).files
                        /\ history' = HandleCreated(files, history, at, dst, k).history
                 /\ \A i \in RowsWithStatus(files, "deleted") : files'[i] = files[i]]_vars

Occurrences(q, event) == Cardinality({ i \in 1..Len(q) : q[i] = event })

\* C33 (as claimed): an unreadable file on 'created'. When the identity cannot be
\* computed for a 'created' event because the file is locked, the handler changes
\* neither the catalog nor the history nor marks anything deleted, and the event is
\* enqueued again (it waits in the queue or in the pending window), so that it is
\* handled once the file can be read.
UnreadableCreatedRetried ==
    [][(ApplyStep /\ Head(outq).event_type = "created" /\ HeldNow = Locked) =>
        /\ files' = files
        /\ history' = history
        /\ \/ Occurrences(outq', Head(outq)) >= Occurrences(outq, Head(outq))
           \/ KeyIndex(pending', Head(outq).src_path) # 0
              /\ pending'[KeyIndex(pending', Head(outq).src_path)] # 
                    IF KeyIndex(pending, Head(outq).src_path) = 0 THEN NoEvent
                    ELSE pending[KeyIndex(pending, Head(outq).src_path)]]_vars

----------------------------------------------------------------------------
(* NASEventHandler: the raw events of the observer and what it puts *)

MaxRaw == 3

\* TrackerConfig.video_extensions, as start() hands them to the handler
VideoExtensions == {".mp4", ".mkv"}

\* the paths of the raw events: two videos, a text file and a file without extension
RawPaths == {P1 \o <<".mp4">>, P2 \o <<".MKV">>, P1 \o <<".txt">>, P2}

\* os.path.splitext(path)[1]
SplitExt(path) ==
    IF path # <<>> /\ path[Len(path)] \in {".mp4", ".MKV", ".txt"}
    THEN path[Len(path)] ELSE ""

\* str.lower() on an extension
LowerExt(ext) == IF ext = ".MKV" THEN ".mkv" ELSE ext

\* NASEventHandler._is_video
IsVideo(path) == LowerExt(SplitExt(path)) \in VideoExtensions

\* the FileSystemEvent objects watchdog delivers
RawEvents ==
    { [src_path |-> s, dest_path |-> d, is_directory |-> dir] :
        s \in RawPaths, d \in RawPaths \cup {NoPath}, dir \in BOOLEAN }

\* on_created, on_deleted, on_modified: the event put for raw, NoEvent when it returns early
PutFor(type, raw, ts) ==
    IF raw.is_directory THEN NoEvent
    ELSE IF ~IsVideo(raw.src_path) THEN NoEvent
    ELSE TrackerEvent(type, raw.src_path, NoPath, ts)

\* on_moved: the event put for raw, NoEvent when it returns early
PutForMoved(raw, ts) ==
    IF raw.is_directory THEN NoEvent
    ELSE IF ~(IsVideo(raw.src_path) \/ IsVideo(raw.dest_path)) THEN NoEvent
    ELSE TrackerEvent("moved", raw.src_path, raw.dest_path, ts)

\* a handler of NASEventHandler called with raw: event_queue.put(event) unless the
\* handler returned early
Deliver(fn, raw, ts, event) ==
    /\ call.n < MaxRaw
    /\ call' = [fn |-> fn, n |-> call.n + 1, raw |-> raw, ts |-> ts]
    /\ IF event = NoEvent
       THEN UNCHANGED <<pending, puts>>
       ELSE pending' = PutPending(pending, event) /\ puts' = puts + 1
    /\ UNCHANGED <<outq, lock, flushPos, timerArmed, timerDeadline, timersWaiting, fnPc, now,
                   lastIn, sawDeleted, flushOut, drainSnap, owed, outstanding>>
    /\ UNCHANGED <<files, history, result, burst, outqBurst, applied, cvars>>
    /\ UNCHANGED <<db, mig, adapter>>

OnCreated ==
    \E raw \in { r \in RawEvents : r.dest_path = NoPath } :
    \E ts \in TimestampsFor(pending, raw.src_path) :
        Deliver("on_created", raw, ts, PutFor("created", raw, ts))

OnDeleted ==
    \E raw \in { r \in RawEvents : r.dest_path = NoPath } :
    \E ts \in TimestampsFor(pending, raw.src_path) :
        Deliver("on_deleted", raw, ts, PutFor("deleted", raw, ts))

OnModified ==
    \E raw \in { r \in RawEvents : r.dest_path = NoPath } :
    \E ts \in TimestampsFor(pending, raw.src_path) :
        Deliver("on_modified", raw, ts, PutFor("modified", raw, ts))

OnMoved ==
    \E raw \in { r \in RawEvents : r.dest_path \notin {NoPath, r.src_path} } :
    \E ts \in TimestampsFor(pending, raw.src_path) :
        Deliver("on_moved", raw, ts, PutForMoved(raw, ts))

InitObserver ==
    /\ QInit /\ TIdle
    /\ db = NoDb /\ mig = MigIdle /\ adapter = AdapterIdle
    /\ call = [fn |-> "none", n |-> 0]

NextObserver ==
    \/ OnCreated
    \/ OnDeleted
    \/ OnModified
    \/ OnMoved

SpecObserver == InitObserver /\ [][NextObserver]_vars

\* C34 (as claimed): observer filtering. The handler puts an event only for a raw
\* event that is not a directory event and whose path has a configured video
\* extension; for a raw move, when source and destination are videos it puts one
\* 'moved' event with both paths, when only the destination is a video a 'created'
\* event for the destination, and when only the source is a video a 'deleted'
\* event for the source.
ObserverFiltering ==
    [][call'.n # call.n =>
        LET raw == call'.raw
            ts == call'.ts
            expected ==
                IF raw.is_directory THEN NoEvent
                ELSE IF call'.fn = "on_moved"
                THEN CASE IsVideo(raw.src_path) /\ IsVideo(raw.dest_path) ->
                            TrackerEvent("moved", raw.src_path, raw.dest_path, ts)
                       [] ~IsVideo(raw.src_path) /\ IsVideo(raw.dest_path) ->
                            TrackerEvent("created", raw.dest_path, NoPath, ts)
                       [] IsVideo(raw.src_path) /\ ~IsVideo(raw.dest_path) ->
                            TrackerEvent("deleted", raw.src_path, NoPath, ts)
                       [] OTHER -> NoEvent
                ELSE IF ~IsVideo(raw.src_path) THEN NoEvent
                ELSE TrackerEvent(CASE call'.fn = "on_created" -> "created"
                                    [] call'.fn = "on_deleted" -> "deleted"
                                    [] OTHER -> "modified",
                                  raw.src_path, NoPath, ts)
        IN  pending' = IF expected = NoEvent THEN pending
                       ELSE PutPending(pending, expected)]_vars

----------------------------------------------------------------------------
(* Properties of reconcile(), checked under SpecReconcile *)

\* C35 (as claimed): the existence check of the reconciler. After a reconcile run
\* with no event handled between its SELECT and its commit, every row that was
\* active with a path absent from the filesystem has status 'deleted' and a
\* deleted_at, result.deleted is the number of such rows, every active row whose
\* path exists keeps its status, path, hash and size and has its last_verified_at
\* written, and the rows that were deleted already are untouched.
ReconcileExistenceCheck ==
    [][(ReconcileStep /\ recon.at = Len(applied)) =>
        /\ \A i \in 1..Len(files) :
            IF files[i].status = "active" /\ files[i].nas_path \notin recon'.exists
            THEN /\ files'[i].status = "deleted"
                 /\ files'[i].deleted_at # NULL
            ELSE IF files[i].status = "active"
            THEN /\ files'[i] = files[i]
                 /\ "last_verified_at" \in recon'.written[i]
            ELSE /\ files'[i] = files[i]
                 /\ recon'.written[i] = {}
        /\ recon'.deleted =
              Cardinality({ i \in RowsWithStatus(files, "active") :
                              files[i].nas_path \notin recon'.exists })]_vars

----------------------------------------------------------------------------
(* The command line: main() builds the TrackerConfig of the tracker *)

\* TrackerConfig: the defaults of its fields
DefaultDbPath == "data/output/archive.db"
DefaultNasPath == "Z:/GGPNAs/ARCHIVE"
DefaultPollInterval == 30

\* an option that is not given, a variable that is not set: <<>>; else <<value>>
Unset == <<>>

\* int(str) on the values POLL_INTERVAL takes here
IntOf(str) == IF str = "60" THEN 60 ELSE 0

\* the command lines: --db-path, --nas-path, --poll-interval given or not
Argvs ==
    [db_path : {Unset, <<"cli.db">>}, nas_path : {Unset, <<"//cli/nas">>},
     poll_interval : {Unset, <<10>>}]

\* os.environ: ARCHIVE_DB, NAS_PATH, POLL_INTERVAL set or not
Environs ==
    [ARCHIVE_DB : {Unset, <<"env.db">>}, NAS_PATH : {Unset, <<"//env/nas">>},
     POLL_INTERVAL : {Unset, <<"60">>, <<"">>}]

\* os.environ.get(name, default)
EnvironGet(value, default) == IF value = Unset THEN default ELSE value[1]

\* argparse: parse_args() on the three options; --poll-interval has default=30
ParseArgs(argv) ==
    [db_path |-> argv.db_path, nas_path |-> argv.nas_path,
     poll_interval |-> IF argv.poll_interval = Unset THEN DefaultPollInterval
                       ELSE argv.poll_interval[1]]

\* TrackerConfig.__post_init__ on the fields as the constructor set them
PostInit(config, environ) ==
    [db_path |-> EnvironGet(environ.ARCHIVE_DB, config.db_path),
     nas_path |-> EnvironGet(environ.NAS_PATH, config.nas_path),
     poll_interval |->
        IF environ.POLL_INTERVAL # Unset /\ environ.POLL_INTERVAL[1] # ""
        THEN IntOf(environ.POLL_INTERVAL[1]) ELSE config.poll_interval]

\* main: the config handed to NASPathTracker
MainConfig(argv, environ) ==
    LET args == ParseArgs(argv)
        config == PostInit([db_path |-> DefaultDbPath, nas_path |-> DefaultNasPath,
                            poll_interval |-> args.poll_interval], environ)
    IN  [config EXCEPT
            !.db_path = IF args.db_path # Unset THEN args.db_path[1] ELSE @,
            !.nas_path = IF args.nas_path # Unset THEN args.nas_path[1] ELSE @]

InitConfig ==
    /\ QInit /\ TIdle
    /\ db = NoDb /\ mig = MigIdle /\ adapter = AdapterIdle
    /\ \E argv \in Argvs : \E environ \in Environs :
        call = [fn |-> "main", argv |-> argv, environ |-> environ, done |-> FALSE,
                config |-> [db_path |-> "", nas_path |-> "", poll_interval |-> 0]]

\* main() up to NASPathTracker(config)
CallMain ==
    /\ call.fn = "main"
    /\ ~call.done
    /\ call' = [call EXCEPT !.done = TRUE,
                            !.config = MainConfig(call.argv, call.environ)]
    /\ UNCHANGED <<qvars, files, history, result, burst, outqBurst, applied, cvars>>
    /\ UNCHANGED <<db, mig, adapter>>

NextConfig == CallMain

SpecConfig == InitConfig /\ [][NextConfig]_vars

\* the value the precedence rule gives: flag, else environment, else default
Precedence(flag, env, default) ==
    IF flag # Unset THEN flag[1] ELSE IF env # Unset THEN env[1] ELSE default

\* C36 (as claimed): configuration precedence. For db_path, nas_path and
\* poll_interval the effective value of the config is the command-line flag when
\* it is given, else the environment variable (ARCHIVE_DB, NAS_PATH,
\* POLL_INTERVAL) when it is set, else the built-in default.
ConfigPrecedence ==
    (call.fn = "main" /\ call.done) =>
        /\ call.config.db_path =
              Precedence(call.argv.db_path, call.environ.ARCHIVE_DB, DefaultDbPath)
        /\ call.config.nas_path =
              Precedence(call.argv.nas_path, call.environ.NAS_PATH, DefaultNasPath)
        /\ call.config.poll_interval =
              Precedence(call.argv.poll_interval,
                         IF call.environ.POLL_INTERVAL \in {Unset, <<"">>} THEN Unset
                         ELSE <<IntOf(call.environ.POLL_INTERVAL[1])>>,
                         DefaultPollInterval)

----------------------------------------------------------------------------
(* Properties of the pipeline from the queue to the catalog, checked under Spec *)

\* C37 (as claimed): coalescing never discards a move destination. When a 'moved'
\* event src -> dst was put first in a window and further events with the same
\* src_path were put before the flush, then after the flushed event of that key is
\* applied, every file its handler opens being readable, the row formerly at src
\* has path dst or an active row for dst exists.
MoveDestinationKept ==
    [][(/\ ApplyStep
        /\ Len(Head(outqBurst)) >= 2
        /\ Head(outqBurst)[1] = "moved"
        /\ OpenedPath(files, Head(outq)) # NoPath => HeldNow \in Contents) =>
        LET src == Head(outq).src_path IN
        \A dst \in Watched \ {src} :
            \E i \in 1..Len(files') :
                /\ files'[i].nas_path = dst
                /\ \/ files'[i].status = "active"
                   \/ i <= Len(files) /\ files[i].nas_path = src]_vars

\* C38 (as claimed): a 'created' event always lands. From any reachable catalog,
\* also one where path P or the id derived from P is held by a soft-deleted row or
\* by a row first seen at P and moved away later, handling a 'created' event for a
\* readable file at P whose identity matches no active row ends without error and
\* with exactly one active row whose path is P.
CreatedAlwaysLands ==
    [][(/\ ApplyStep
        /\ Head(outq).event_type = "created"
        /\ HeldNow \in Contents
        /\ \A i \in RowsWithStatus(files, "active") :
              ~(/\ files[i].content_hash = HeldNow.content_hash
                /\ files[i].size_bytes = HeldNow.size)) =>
        /\ result'.errors = result.errors
        /\ Cardinality(ActiveAt(files', Head(outq).src_path)) = 1]_vars

----------------------------------------------------------------------------
(* reconcile() run beside the applier while the archive changes *)

\* os.path.exists on the paths reconcile fetched, the archive being as it is
ExistingPaths(fetched) ==
    { fetched[i] : i \in { j \in DOMAIN fetched : fs[fetched[j]] # NoFile } }

\* reconcile: the loop over the fetched rows and the commit, reading the archive
ReconcileWriteArchive ==
    /\ recon.pc = "fetched"
    /\ files' = MarkDeleted(files, recon.rows, ExistingPaths(recon.rows))
    /\ recon' = [runs |-> recon.runs + 1, pc |-> "idle", rows |-> <<>>,
                 exists |-> ExistingPaths(recon.rows),
                 deleted |-> Cardinality(Missing(recon.rows, ExistingPaths(recon.rows))),
                 at |-> recon.at,
                 written |-> ColumnsWritten(files, recon.rows, ExistingPaths(recon.rows)),
                 again |-> /\ recon.again
                           /\ recon.at = Len(applied)
                           /\ recon.exists = ExistingPaths(recon.rows)]
    /\ UNCHANGED <<qvars, history, result, burst, outqBurst, applied, tx, running, fs>>
    /\ UNCHANGED xvars

NextReconcileArchive ==
    \/ FsCreate
    \/ FsModify
    \/ FsDelete
    \/ FsMove
    \/ Flush
    \/ ApplyArchive
    \/ ReconcileRead
    \/ ReconcileWriteArchive

SpecReconcileArchive == Init /\ [][NextReconcileArchive]_vars

\* C39 (as claimed): reconcile and the applier interleaved. A reconcile run
\* soft-deletes a row only if the path the row holds at the moment of the update
\* does not exist; it never marks deleted a row whose path was rewritten to an
\* existing file by a move applied after reconcile read its list of active rows.
ReconcileChecksHeldPath ==
    [][ReconcileStep =>
        \A i \in 1..Len(files) :
            (files[i].status = "active" /\ files'[i].status = "deleted")
                => fs[files[i].nas_path] = NoFile]_vars

----------------------------------------------------------------------------
(* Properties of the TrackerResult, checked under Spec *)

\* the number of records of event_type in a history
Records(hist, event_type) ==
    Cardinality({ i \in 1..Len(hist) : hist[i].event_type = event_type })

\* C40 (as claimed): counter accuracy. Each counter of the result of
\* process_events equals the number of history records of the matching type
\* appended during the call: created the 'created' records, moved the 'moved'
\* records, deleted the 'deleted' records, updated the 'modified' records.
CounterAccuracy ==
    /\ result.created = Records(history, "created")
    /\ result.moved = Records(history, "moved")
    /\ result.deleted = Records(history, "deleted")
    /\ result.updated = Records(history, "modified")

============================================================================
